---- MODULE Spec2Model ----
(***************************************************************************)
(* Recipe generation and assembly pipeline of mixr_api:                    *)
(*   services/recipeParser.ts  (extractJson, parseRecipeResponse)          *)
(*   services/recipeGenerator.ts (generateRecipe)                          *)
(*   routes/recipes.ts  (POST /generate, GET /, GET /:id,                  *)
(*                       getCompleteRecipe, getCompleteRecipes)            *)
(*   routes/users.ts    (GET /me/recipes, getCompleteRecipes)              *)
(*                                                                         *)
(* Text is modelled as a sequence of lexical tokens (a fence marker, a     *)
(* quote, a brace, a word, ...), JSON values as tagged records [t, v].     *)
(* The relational store is modelled as heap tables: sequences of rows in   *)
(* insertion order, each row tagged with the transaction that wrote it;    *)
(* a row is visible to a query when its transaction has committed.         *)
(***************************************************************************)
EXTENDS Integers, Sequences, FiniteSets, TLC

(***************************************************************************)
(* Tokens                                                                  *)
(***************************************************************************)
\* the markdown fence marker (three backquotes) as one token
FENCE == "<fence>"
QUOTE == "\""
SP == " "
NL == "\n"
Whitespace == {SP, NL}

At(s, i) == IF i \in 1..Len(s) THEN s[i] ELSE "<EOF>"

RECURSIVE SkipWs(_, _)
SkipWs(s, i) == IF i <= Len(s) /\ s[i] \in Whitespace THEN SkipWs(s, i + 1) ELSE i

RECURSIVE SkipWsBack(_, _)
SkipWsBack(s, i) == IF i >= 1 /\ s[i] \in Whitespace THEN SkipWsBack(s, i - 1) ELSE i

\* String.prototype.trim
Trim(s) ==
  LET a == SkipWs(s, 1)
      b == SkipWsBack(s, Len(s))
  IN IF a > b THEN <<>> ELSE SubSeq(s, a, b)

MinOf(S) == CHOOSE x \in S : \A y \in S : x <= y
MaxOf(S) == CHOOSE x \in S : \A y \in S : x >= y

(***************************************************************************)
(* JSON values                                                             *)
(***************************************************************************)
JUndefined == [t |-> "undefined", v |-> "undefined"]
JNull == [t |-> "null", v |-> "null"]
JBool(b) == [t |-> "bool", v |-> b]
JNum(n) == [t |-> "num", v |-> n]
JStr(s) == [t |-> "str", v |-> s]
JArr(a) == [t |-> "arr", v |-> a]
\* an object is its list of <<key, value>> members, keys unique, in insertion order
JObj(members) == [t |-> "obj", v |-> members]

\* assignment of a member while parsing: a repeated key keeps its place and takes the new value
PutMember(members, key, val) ==
  IF \E i \in 1..Len(members) : members[i][1] = key
  THEN [i \in 1..Len(members) |-> IF members[i][1] = key THEN <<key, val>> ELSE members[i]]
  ELSE Append(members, <<key, val>>)

\* property read  value.key  (the caller has excluded null and undefined)
GetProp(val, key) ==
  IF val.t = "obj" /\ \E i \in 1..Len(val.v) : val.v[i][1] = key
  THEN LET i == CHOOSE i \in 1..Len(val.v) : val.v[i][1] = key IN val.v[i][2]
  ELSE JUndefined

(***************************************************************************)
(* JSON.parse over tokens                                                  *)
(***************************************************************************)
ParseFail == [ok |-> FALSE, val |-> JUndefined, pos |-> 0]
ParseOk(val, pos) == [ok |-> TRUE, val |-> val, pos |-> pos]

NumberTokens == {"5"}
\* tokens that cannot stand inside a string literal
StringBreakers == {QUOTE, NL, "<EOF>"}

\* a string literal: quote, at most one token of content, quote
ParseString(s, i) ==
  IF At(s, i) # QUOTE THEN ParseFail
  ELSE IF At(s, i + 1) = QUOTE THEN ParseOk(JStr(""), i + 2)
  ELSE IF At(s, i + 1) \notin StringBreakers /\ At(s, i + 2) = QUOTE
       THEN ParseOk(JStr(s[i + 1]), i + 3)
  ELSE ParseFail

RECURSIVE ParseValue(_, _)
RECURSIVE ParseElements(_, _, _)
RECURSIVE ParseMembers(_, _, _)

ParseValue(s, i) ==
  LET tok == At(s, i) IN
  IF tok = "null" THEN ParseOk(JNull, i + 1)
  ELSE IF tok = "true" THEN ParseOk(JBool(TRUE), i + 1)
  ELSE IF tok \in NumberTokens THEN ParseOk(JNum(tok), i + 1)
  ELSE IF tok = QUOTE THEN ParseString(s, i)
  ELSE IF tok = "[" THEN
    LET j == SkipWs(s, i + 1) IN
    IF At(s, j) = "]" THEN ParseOk(JArr(<<>>), j + 1) ELSE ParseElements(s, j, <<>>)
  ELSE IF tok = "{" THEN
    LET j == SkipWs(s, i + 1) IN
    IF At(s, j) = "}" THEN ParseOk(JObj(<<>>), j + 1) ELSE ParseMembers(s, j, <<>>)
  ELSE ParseFail

ParseElements(s, i, acc) ==
  LET r == ParseValue(s, i) IN
  IF ~r.ok THEN ParseFail
  ELSE LET j == SkipWs(s, r.pos)
           acc2 == Append(acc, r.val)
       IN IF At(s, j) = "," THEN ParseElements(s, SkipWs(s, j + 1), acc2)
          ELSE IF At(s, j) = "]" THEN ParseOk(JArr(acc2), j + 1)
          ELSE ParseFail

ParseMembers(s, i, acc) ==
  LET k == ParseString(s, i) IN
  IF ~k.ok THEN ParseFail
  ELSE LET j == SkipWs(s, k.pos) IN
       IF At(s, j) # ":" THEN ParseFail
       ELSE LET r == ParseValue(s, SkipWs(s, j + 1)) IN
            IF ~r.ok THEN ParseFail
            ELSE LET m == SkipWs(s, r.pos)
                     acc2 == PutMember(acc, k.val.v, r.val)
                 IN IF At(s, m) = "," THEN ParseMembers(s, SkipWs(s, m + 1), acc2)
                    ELSE IF At(s, m) = "}" THEN ParseOk(JObj(acc2), m + 1)
                    ELSE ParseFail

\* JSON.parse: one value, whitespace allowed around it, nothing else
JSONparse(s) ==
  LET r == ParseValue(s, SkipWs(s, 1)) IN
  IF r.ok /\ SkipWs(s, r.pos) = Len(s) + 1 THEN r ELSE ParseFail

(***************************************************************************)
(* extractJson                                                             *)
(***************************************************************************)
FencePositions(raw) == {i \in 1..Len(raw) : raw[i] = FENCE}

\* raw.match(/FENCE(?:json)?\s*\n?([\s\S]*?)\n?\s*FENCE/): the first fence that has
\* another fence after it opens the block, the next fence closes it
HasFenceMatch(raw) == Cardinality(FencePositions(raw)) >= 2

FenceCapture(raw) ==
  LET open == MinOf(FencePositions(raw))
      close == MinOf(FencePositions(raw) \ {open})
      afterTag == IF At(raw, open + 1) = "json" THEN open + 2 ELSE open + 1
      start == SkipWs(raw, afterTag)
  IN IF start > close - 1 THEN <<>> ELSE SubSeq(raw, start, close - 1)

\* raw.match(/\{[\s\S]*\}/): from the first "{" to the last "}" behind it
OpenBraces(raw) == {i \in 1..Len(raw) : raw[i] = "{"}
CloseBraces(raw) == {i \in 1..Len(raw) : raw[i] = "}"}

HasJsonMatch(raw) ==
  /\ OpenBraces(raw) # {}
  /\ \E j \in CloseBraces(raw) : j > MinOf(OpenBraces(raw))

JsonMatch(raw) == SubSeq(raw, MinOf(OpenBraces(raw)), MaxOf(CloseBraces(raw)))

\* variant: the brace span is tried before the fence
extractJsonBraceFirst(raw) ==
  IF HasJsonMatch(raw) THEN Trim(JsonMatch(raw))
  ELSE IF HasFenceMatch(raw) THEN Trim(FenceCapture(raw))
  ELSE Trim(raw)

extractJson(raw) ==
  IF HasFenceMatch(raw) THEN Trim(FenceCapture(raw))
  ELSE IF HasJsonMatch(raw) THEN Trim(JsonMatch(raw))
  ELSE Trim(raw)

(***************************************************************************)
(* parseRecipeResponse                                                     *)
(***************************************************************************)
EmptyRecipe ==
  [name |-> "", description |-> "", ingredients |-> <<>>, steps |-> <<>>, equipmentUsed |-> <<>>]

Thrown(cause) == [ok |-> FALSE, cause |-> cause, recipe |-> EmptyRecipe]
Returned(recipe) == [ok |-> TRUE, cause |-> "none", recipe |-> recipe]

\* the four causes parseRecipeResponse reports by its own throw statements
ParseCauses == {"json", "name", "ingredients", "steps"}

\* !x || typeof x !== 'string'
IsNonEmptyString(x) == x.t = "str" /\ x.v # ""
\* variant: the length of the array is not looked at
IsArrayOfAnyLength(x) == x.t = "arr"

\* Array.isArray(x) && x.length > 0
IsNonEmptyArray(x) == x.t = "arr" /\ Len(x.v) > 0

\* reading a property of null throws a TypeError before any check runs
ReadsOfNullThrow(parsed) == parsed.t = "null"

\* variant: a description or an equipmentUsed of the wrong type is rejected
parseRecipeResponseStrict(content) ==
  LET jsonStr == extractJson(content)
      r == JSONparse(jsonStr)
      recipe == r.val
  IN IF ~r.ok THEN Thrown("json")
     ELSE IF ReadsOfNullThrow(recipe) THEN Thrown("TypeError")
     ELSE IF ~IsNonEmptyString(GetProp(recipe, "name")) THEN Thrown("name")
     ELSE IF ~IsNonEmptyArray(GetProp(recipe, "ingredients")) THEN Thrown("ingredients")
     ELSE IF ~IsNonEmptyArray(GetProp(recipe, "steps")) THEN Thrown("steps")
     ELSE IF GetProp(recipe, "description").t # "str" THEN Thrown("description")
     ELSE IF GetProp(recipe, "equipmentUsed").t # "arr" THEN Thrown("equipmentUsed")
     ELSE Returned(
       [name |-> GetProp(recipe, "name").v,
        description |-> GetProp(recipe, "description").v,
        ingredients |-> GetProp(recipe, "ingredients").v,
        steps |-> GetProp(recipe, "steps").v,
        equipmentUsed |-> GetProp(recipe, "equipmentUsed").v])

parseRecipeResponse(content) ==
  LET jsonStr == extractJson(content)
      r == JSONparse(jsonStr)
      recipe == r.val
  IN IF ~r.ok THEN Thrown("json")
     ELSE IF ReadsOfNullThrow(recipe) THEN Thrown("TypeError")
     ELSE IF ~IsNonEmptyString(GetProp(recipe, "name")) THEN Thrown("name")
     ELSE IF ~IsNonEmptyArray(GetProp(recipe, "ingredients")) THEN Thrown("ingredients")
     ELSE IF ~IsNonEmptyArray(GetProp(recipe, "steps")) THEN Thrown("steps")
     ELSE Returned(
       [name |-> GetProp(recipe, "name").v,
        description |-> IF GetProp(recipe, "description").t = "str"
                        THEN GetProp(recipe, "description").v ELSE "",
        ingredients |-> GetProp(recipe, "ingredients").v,
        steps |-> GetProp(recipe, "steps").v,
        equipmentUsed |-> IF GetProp(recipe, "equipmentUsed").t = "arr"
                          THEN GetProp(recipe, "equipmentUsed").v ELSE <<>>])


(***************************************************************************)
(* Catalog (db/seed.ts) and store (db/schema.ts)                           *)
(***************************************************************************)
\* a nullable integer column holding NULL
SqlNull == 0

equipment ==
  << [id |-> 1, name |-> "Shaker", icon |-> "shaker.png"],
     [id |-> 2, name |-> "Jigger", icon |-> "jigger.png"] >>

ingredients ==
  << [id |-> 1, name |-> "Vodka", icon |-> "vodka.png"],
     [id |-> 2, name |-> "Lime Juice", icon |-> "lime.png"] >>

moods ==
  << [id |-> 1, name |-> "Happy", description |-> "Bright", exampleDrinks |-> "Mojito"],
     [id |-> 2, name |-> "Serious", description |-> "Strong", exampleDrinks |-> "Manhattan"] >>

NullMood == [id |-> SqlNull, name |-> "", description |-> "", exampleDrinks |-> ""]

Users == {"u1", "u2"}

\* String.prototype.toLowerCase on the names that occur
LowerCaseTable ==
  << <<"Vodka", "vodka">>, <<"VODKA", "vodka">>,
     <<"Lime Juice", "lime juice">>, <<"LIME JUICE", "lime juice">>,
     <<"Fresh Lime", "fresh lime">>,
     <<"Shaker", "shaker">>, <<"SHAKER", "shaker">>,
     <<"Jigger", "jigger">>, <<"Blender", "blender">> >>

toLowerCase(s) ==
  IF \E i \in 1..Len(LowerCaseTable) : LowerCaseTable[i][1] = s
  THEN LowerCaseTable[CHOOSE i \in 1..Len(LowerCaseTable) : LowerCaseTable[i][1] = s][2]
  ELSE s

Range(f) == {f[i] : i \in DOMAIN f}

RECURSIVE FlatMap(_, _)
\* s.map(F).flat(): F yields a sequence (empty for a dropped element)
FlatMap(F(_), s) == IF s = <<>> THEN <<>> ELSE F(Head(s)) \o FlatMap(F, Tail(s))

\* the first element of s that satisfies P, as Array.prototype.find returns it
FindIndex(P(_), s) ==
  IF \E i \in 1..Len(s) : P(s[i])
  THEN MinOf({i \in 1..Len(s) : P(s[i])})
  ELSE 0

VARIABLES
  recipes,            \* heap of mixr.recipes rows
  recipeIngredients,  \* heap of mixr.recipe_ingredients rows
  recipeSteps,        \* heap of mixr.recipe_steps rows
  recipeEquipment,    \* heap of mixr.recipe_equipment rows
  userPreferences,    \* mixr.user_preferences rows
  txStatus,           \* transaction id -> "none" | "active" | "committed" | "aborted"
  nextRecipeId,       \* the serial sequence of recipes.id
  req,                \* the POST /generate requests
  rd,                 \* the reading request (GET /, GET /:id, GET /me/recipes)
  fn,                 \* the pure function under check and its argument and result
  users,              \* mixr.users rows
  recipeRatings,      \* heap of mixr.recipe_ratings rows
  userFavorites,      \* heap of mixr.user_favorites rows
  nextRatingId,       \* the serial sequence of recipe_ratings.id
  clock,              \* now() of the store, read by defaultNow()
  op                  \* the requests of the rating, favorite and user routes

storeVars == <<recipes, recipeIngredients, recipeSteps, recipeEquipment, userPreferences,
               txStatus, nextRecipeId>>
socialVars == <<users, recipeRatings, userFavorites, nextRatingId, clock>>
vars == <<recipes, recipeIngredients, recipeSteps, recipeEquipment, userPreferences,
          txStatus, nextRecipeId, req, rd, fn, users, recipeRatings, userFavorites,
          nextRatingId, clock, op>>

\* number of POST /generate requests of one behaviour
MaxRequests == 2
Requests == 1..MaxRequests

\* variant: every insert is visible at once, as without a transaction
IsVisibleUncommitted(tx) == TRUE

\* a row is visible to other connections once its transaction has committed
IsVisible(tx) == txStatus[tx] = "committed"

Committed(table) == LET Vis(row) == IsVisible(row.tx) IN SelectSeq(table, Vis)

\* the rows a transaction wrote, and a table without them
RowsOf(table, tx) == LET Mine(row) == row.tx = tx IN SelectSeq(table, Mine)
Discard(table, tx) == LET Other(row) == row.tx # tx IN SelectSeq(table, Other)

\* variant: the transaction commits whatever the callback did
TxOutcomeAlwaysCommits(threw) == "committed"

\* db.transaction(callback): COMMIT when the callback returns, ROLLBACK when it throws
TxOutcome(threw) == IF threw THEN "aborted" ELSE "committed"

(***************************************************************************)
(* POST /api/recipes/generate                                              *)
(***************************************************************************)
IdleRequest ==
  [pc |-> "idle", user |-> "", equipment_ids |-> <<>>, ingredient_ids |-> <<>>, mood_id |-> SqlNull,
   equipmentData |-> <<>>, ingredientData |-> <<>>,
   generatedRecipe |-> EmptyRecipe, recipeId |-> SqlNull,
   status |-> 0, error |-> "", aiCalls |-> 0, txAttempts |-> 0]

\* variant: the ID list is not applied
WhereIdInAny(table, ids) == table

\* select().from(table).where(inArray(table.id, ids))
WhereIdIn(table, ids) == LET In(row) == row.id \in Range(ids) IN SelectSeq(table, In)

PrefsOf(user) == LET Of(row) == row.userId = user IN SelectSeq(userPreferences, Of)

\* the handler returns: a failed request leaves only its answer behind
Respond(r, status, error) ==
  IF status = 200 THEN [r EXCEPT !.pc = "done", !.status = status, !.error = error]
  ELSE [IdleRequest EXCEPT !.pc = "done", !.user = r.user, !.status = status, !.error = error,
                          !.aiCalls = r.aiCalls, !.txAttempts = r.txAttempts]

\* variant: the saved list is used whenever a preferences row was read
FallbackWholesale(ids, prefs, column) == IF prefs # <<>> THEN prefs[1][column] ELSE ids

\* if (prefs) { if (ids.length === 0) { ids = prefs.column || [] } }
\* (a NULL array column and an empty one both read as the empty list)
Fallback(ids, prefs, column) == IF prefs # <<>> /\ ids = <<>> THEN prefs[1][column] ELSE ids

\* the handler up to the call of generateRecipe: validation, preference fallback, catalog reads
GenerateStart(r, user, body_equipment_ids, body_ingredient_ids, mood_id) ==
  LET r0 == [r EXCEPT !.user = user]
      needPrefs == body_equipment_ids = <<>> \/ body_ingredient_ids = <<>>
      prefs == IF needPrefs THEN PrefsOf(user) ELSE <<>>
      equipment_ids == Fallback(body_equipment_ids, prefs, "equipmentIds")
      ingredient_ids == Fallback(body_ingredient_ids, prefs, "ingredientIds")
      equipmentData == WhereIdIn(equipment, equipment_ids)
      ingredientData == WhereIdIn(ingredients, ingredient_ids)
      moodData == WhereIdIn(moods, <<mood_id>>)
  IN IF mood_id <= 0 THEN Respond(r0, 400, "mood_id must be a positive integer")
     ELSE IF equipment_ids = <<>>
       THEN Respond(r0, 400, "equipment_ids must be a non-empty array (no saved preferences found)")
     ELSE IF ingredient_ids = <<>>
       THEN Respond(r0, 400, "ingredient_ids must be a non-empty array (no saved preferences found)")
     ELSE IF equipmentData = <<>> THEN Respond(r0, 400, "No valid equipment found")
     ELSE IF ingredientData = <<>> THEN Respond(r0, 400, "No valid ingredients found")
     ELSE IF moodData = <<>> THEN Respond(r0, 404, "Mood not found")
     ELSE [r0 EXCEPT !.pc = "generating",
                     !.equipment_ids = equipment_ids, !.ingredient_ids = ingredient_ids,
                     !.mood_id = mood_id,
                     !.equipmentData = equipmentData, !.ingredientData = ingredientData]

EquipmentIdInputs == {<<>>, <<1, 2>>, <<9>>}
IngredientIdInputs == {<<>>, <<1, 2>>}
MoodIdInputs == {0, 1, 9}

Start(i) ==
  /\ req[i].pc = "idle"
  /\ IF i = 1 THEN TRUE ELSE req[i - 1].pc # "idle"
  /\ \E user \in Users, eq \in EquipmentIdInputs, ing \in IngredientIdInputs, mood_id \in MoodIdInputs :
       req' = [req EXCEPT ![i] = GenerateStart(req[i], user, eq, ing, mood_id)]
  /\ UNCHANGED <<storeVars, rd, fn>>
  /\ UNCHANGED <<socialVars, op>>


(***************************************************************************)
(* The generation backend's answers                                        *)
(***************************************************************************)
RECURSIVE Stringify(_)
RECURSIVE StringifyElements(_)
RECURSIVE StringifyMembers(_)

\* JSON.stringify
Stringify(val) ==
  CASE val.t = "null" -> <<"null">>
    [] val.t = "bool" -> <<"true">>
    [] val.t = "num" -> <<val.v>>
    [] val.t = "str" -> IF val.v = "" THEN <<QUOTE, QUOTE>> ELSE <<QUOTE, val.v, QUOTE>>
    [] val.t = "arr" -> <<"[">> \o StringifyElements(val.v) \o <<"]">>
    [] val.t = "obj" -> <<"{">> \o StringifyMembers(val.v) \o <<"}">>

StringifyElements(a) ==
  IF a = <<>> THEN <<>>
  ELSE Stringify(Head(a)) \o (IF Len(a) > 1 THEN <<",">> \o StringifyElements(Tail(a)) ELSE <<>>)

StringifyMembers(m) ==
  IF m = <<>> THEN <<>>
  ELSE <<QUOTE, Head(m)[1], QUOTE, ":">> \o Stringify(Head(m)[2])
       \o (IF Len(m) > 1 THEN <<",">> \o StringifyMembers(Tail(m)) ELSE <<>>)

Ingredient(name, amount) == JObj(<< <<"name", JStr(name)>>, <<"amount", JStr(amount)>> >>)

\* the scenario of the end-to-end test: one name in another case, one name not offered
Sunrise ==
  JObj(<< <<"name", JStr("Sunrise")>>,
          <<"description", JStr("Bright")>>,
          <<"ingredients", JArr(<<Ingredient("VODKA", "2 oz"), Ingredient("Fresh Lime", "1 oz")>>)>>,
          <<"steps", JArr(<<JStr("Shake"), JStr("Strain"), JStr("Serve")>>)>>,
          <<"equipmentUsed", JArr(<<JStr("SHAKER")>>)>> >>)

Gimlet ==
  JObj(<< <<"name", JStr("Gimlet")>>,
          <<"ingredients", JArr(<<Ingredient("Lime Juice", "1 oz"), Ingredient("Vodka", "2 oz")>>)>>,
          <<"steps", JArr(<<JStr("Pour"), JStr("Stir")>>)>>,
          <<"equipmentUsed", JArr(<<JStr("Blender"), JStr("Jigger")>>)>> >>)

\* no generated ingredient name is one of the offered names
Mystery ==
  JObj(<< <<"name", JStr("Mystery")>>,
          <<"ingredients", JArr(<<Ingredient("Fresh Lime", "1 oz")>>)>>,
          <<"steps", JArr(<<JStr("Stir")>>)>> >>)

\* an ingredients entry that is no object
Broken ==
  JObj(<< <<"name", JStr("Broken")>>,
          <<"ingredients", JArr(<<JNull>>)>>,
          <<"steps", JArr(<<JStr("Stir")>>)>> >>)

NoSteps ==
  JObj(<< <<"name", JStr("NoSteps")>>,
          <<"ingredients", JArr(<<Ingredient("Vodka", "2 oz")>>)>> >>)

JsonFenced(body) == <<FENCE, "json", NL>> \o body \o <<NL, FENCE>>
BareFenced(body) == <<FENCE, NL>> \o body \o <<NL, FENCE>>
InProse(body) == <<"Here", SP, "is", SP, "the", SP, "recipe:", NL>> \o body \o <<NL, "Enjoy!">>

BackendContents ==
  { JsonFenced(Stringify(Sunrise)),
    Stringify(Gimlet),
    InProse(Stringify(Mystery)),
    BareFenced(Stringify(Broken)),
    Stringify(NoSteps),
    <<"no", SP, "json", SP, "here">> }

\* chat.completions.create rejects, or resolves with a message content (null, "" or text)
BackendOutcomes ==
  {[kind |-> "rejected", content |-> <<>>, message |-> "429 Rate limit reached"],
   [kind |-> "empty", content |-> <<>>, message |-> ""]}
  \cup {[kind |-> "content", content |-> c, message |-> ""] : c \in BackendContents}

ParseErrorMessage(cause) ==
  CASE cause = "json" -> "Failed to parse recipe JSON: SyntaxError"
    [] cause = "name" -> "Invalid recipe format: missing or invalid \"name\" field"
    [] cause = "ingredients" -> "Invalid recipe format: missing or empty \"ingredients\" array"
    [] cause = "steps" -> "Invalid recipe format: missing or empty \"steps\" array"
    [] OTHER -> "TypeError"

\* variant: every failure of the generation is answered with one fixed message
GenerateRecipeSwallowing(r, outcome) ==
  LET r1 == [r EXCEPT !.aiCalls = @ + 1] IN
  IF outcome.kind = "rejected" \/ outcome.kind = "empty" \/ outcome.content = <<>>
    THEN Respond(r1, 500, "Failed to generate recipe")
  ELSE LET res == parseRecipeResponse(outcome.content) IN
       IF ~res.ok THEN Respond(r1, 500, "Failed to generate recipe")
       ELSE [r1 EXCEPT !.pc = "tx", !.generatedRecipe = res.recipe]

\* generateRecipe and the handler's catch
GenerateRecipe(r, outcome) ==
  LET r1 == [r EXCEPT !.aiCalls = @ + 1] IN
  IF outcome.kind = "rejected" THEN Respond(r1, 500, "AI service error: " \o outcome.message)
  ELSE IF outcome.kind = "empty" \/ outcome.content = <<>>
    THEN Respond(r1, 500, "AI service returned empty response")
  ELSE LET res == parseRecipeResponse(outcome.content) IN
       IF ~res.ok THEN Respond(r1, 500, ParseErrorMessage(res.cause))
       ELSE [r1 EXCEPT !.pc = "tx", !.generatedRecipe = res.recipe]

Generate(i) ==
  /\ req[i].pc = "generating"
  /\ \E outcome \in BackendOutcomes : req' = [req EXCEPT ![i] = GenerateRecipe(req[i], outcome)]
  /\ UNCHANGED <<storeVars, rd, fn>>
  /\ UNCHANGED <<socialVars, op>>

(***************************************************************************)
(* db.transaction of POST /generate                                       *)
(***************************************************************************)
\* the message of the error a failed insert statement rejects with
StoreError(table) ==
  CASE table = "recipes" -> "Failed query: insert into recipes"
    [] table = "recipe_ingredients" -> "Failed query: insert into recipe_ingredients"
    [] table = "recipe_steps" -> "Failed query: insert into recipe_steps"
    [] table = "recipe_equipment" -> "Failed query: insert into recipe_equipment"

\* what a text column stores for a bound parameter
ColumnText(val) == IF val.t \in {"str", "num"} THEN val.v ELSE "<serialized>"
\* a NOT NULL column rejects null and a missing value
NotNullRejects(val) == val.t \in {"null", "undefined"}

\* ri.name.toLowerCase() / name.toLowerCase() throws unless it is called on a string
NameThrows(ri) == ri.t = "null" \/ GetProp(ri, "name").t # "str"

\* variant: names are compared as they are written
MatchByNameExact(data, name) ==
  LET Same(row) == row.name = name IN FindIndex(Same, data)

\* data.find((i) => i.name.toLowerCase() === name.toLowerCase())
MatchByName(data, name) ==
  LET Same(row) == toLowerCase(row.name) = toLowerCase(name) IN FindIndex(Same, data)

\* variant: names are looked up in the whole catalog
ingredientValuesOfCatalog(generatedRecipe, ingredientData, recipeId, tx) ==
  LET Value(ri) ==
        LET m == MatchByName(ingredients, GetProp(ri, "name").v) IN
        IF m = 0 THEN <<>>
        ELSE << [recipeId |-> recipeId, ingredientId |-> ingredients[m].id,
                 amount |-> ColumnText(GetProp(ri, "amount")), tx |-> tx] >>
  IN FlatMap(Value, generatedRecipe.ingredients)

ingredientValues(generatedRecipe, ingredientData, recipeId, tx) ==
  LET Value(ri) ==
        LET m == MatchByName(ingredientData, GetProp(ri, "name").v) IN
        IF m = 0 THEN <<>>
        ELSE << [recipeId |-> recipeId, ingredientId |-> ingredientData[m].id,
                 amount |-> ColumnText(GetProp(ri, "amount")), tx |-> tx] >>
  IN FlatMap(Value, generatedRecipe.ingredients)

\* the amounts of the rows of ingredientValues, as the insert receives them
ingredientAmounts(generatedRecipe, ingredientData) ==
  LET Amount(ri) ==
        IF MatchByName(ingredientData, GetProp(ri, "name").v) = 0 THEN <<>>
        ELSE <<GetProp(ri, "amount")>>
  IN FlatMap(Amount, generatedRecipe.ingredients)

\* variant: steps are numbered by their array index
stepValuesZeroBased(generatedRecipe, recipeId, tx) ==
  [i \in 1..Len(generatedRecipe.steps) |->
    [recipeId |-> recipeId, stepNumber |-> i - 1,
     instruction |-> ColumnText(generatedRecipe.steps[i]), tx |-> tx]]

stepValues(generatedRecipe, recipeId, tx) ==
  [i \in 1..Len(generatedRecipe.steps) |->
    [recipeId |-> recipeId, stepNumber |-> i,
     instruction |-> ColumnText(generatedRecipe.steps[i]), tx |-> tx]]

equipmentValues(generatedRecipe, equipmentData, recipeId, tx) ==
  LET Value(name) ==
        LET m == MatchByName(equipmentData, name.v) IN
        IF m = 0 THEN <<>>
        ELSE << [recipeId |-> recipeId, equipmentId |-> equipmentData[m].id, tx |-> tx] >>
  IN FlatMap(Value, generatedRecipe.equipmentUsed)

\* what a table holds once the transaction has ended
Ended(table, tx, outcome) == IF outcome = "aborted" THEN Discard(table, tx) ELSE table

\* an error thrown inside the callback: the transaction ends, the handler answers 500
\* variant: after the rollback the transaction is run again
AbortAndRetry(i, r, message) ==
  LET outcome == TxOutcome(TRUE) IN
  /\ txStatus' = [txStatus EXCEPT ![i] = outcome]
  /\ recipes' = Ended(recipes, i, outcome)
  /\ recipeIngredients' = Ended(recipeIngredients, i, outcome)
  /\ recipeSteps' = Ended(recipeSteps, i, outcome)
  /\ recipeEquipment' = Ended(recipeEquipment, i, outcome)
  /\ req' = [req EXCEPT ![i] = [r EXCEPT !.pc = "tx"]]

Abort(i, r, message) ==
  LET outcome == TxOutcome(TRUE) IN
  /\ txStatus' = [txStatus EXCEPT ![i] = outcome]
  /\ recipes' = Ended(recipes, i, outcome)
  /\ recipeIngredients' = Ended(recipeIngredients, i, outcome)
  /\ recipeSteps' = Ended(recipeSteps, i, outcome)
  /\ recipeEquipment' = Ended(recipeEquipment, i, outcome)
  /\ req' = [req EXCEPT ![i] = Respond(r, 500, message)]

InsertRecipe(i) ==
  /\ req[i].pc = "tx"
  /\ \E storeFails \in BOOLEAN :
       IF storeFails
       THEN /\ Abort(i, [req[i] EXCEPT !.txAttempts = @ + 1], StoreError("recipes"))
            /\ UNCHANGED nextRecipeId
       ELSE /\ txStatus' = [txStatus EXCEPT ![i] = "active"]
            /\ recipes' = Append(recipes,
                 [id |-> nextRecipeId, name |-> req[i].generatedRecipe.name,
                  description |-> req[i].generatedRecipe.description,
                  moodId |-> req[i].mood_id, userId |-> req[i].user,
                  createdAt |-> nextRecipeId, tx |-> i])
            /\ nextRecipeId' = nextRecipeId + 1
            /\ req' = [req EXCEPT ![i].pc = "ingredients", ![i].recipeId = nextRecipeId,
                                  ![i].txAttempts = @ + 1]
            /\ UNCHANGED <<recipeIngredients, recipeSteps, recipeEquipment>>
  /\ UNCHANGED <<userPreferences, rd, fn>>
  /\ UNCHANGED <<socialVars, op>>

InsertIngredients(i) ==
  /\ req[i].pc = "ingredients"
  /\ LET r == req[i] IN
     IF \E k \in 1..Len(r.generatedRecipe.ingredients) : NameThrows(r.generatedRecipe.ingredients[k])
     THEN Abort(i, req[i], "TypeError")
     ELSE LET values == ingredientValues(r.generatedRecipe, r.ingredientData, r.recipeId, i)
              amounts == ingredientAmounts(r.generatedRecipe, r.ingredientData)
          IN IF values = <<>>
             THEN /\ req' = [req EXCEPT ![i].pc = "steps"]
                  /\ UNCHANGED <<recipes, recipeIngredients, recipeSteps, recipeEquipment, txStatus>>
             ELSE \E storeFails \in BOOLEAN :
                    IF storeFails \/ \E k \in 1..Len(amounts) : NotNullRejects(amounts[k])
                    THEN Abort(i, req[i], StoreError("recipe_ingredients"))
                    ELSE /\ recipeIngredients' = recipeIngredients \o values
                         /\ req' = [req EXCEPT ![i].pc = "steps"]
                         /\ UNCHANGED <<recipes, recipeSteps, recipeEquipment, txStatus>>
  /\ UNCHANGED <<userPreferences, nextRecipeId, rd, fn>>
  /\ UNCHANGED <<socialVars, op>>

InsertSteps(i) ==
  /\ req[i].pc = "steps"
  /\ LET r == req[i]
         values == stepValues(r.generatedRecipe, r.recipeId, i)
     IN \E storeFails \in BOOLEAN :
          IF storeFails \/ \E k \in 1..Len(r.generatedRecipe.steps) : NotNullRejects(r.generatedRecipe.steps[k])
          THEN Abort(i, req[i], StoreError("recipe_steps"))
          ELSE /\ recipeSteps' = recipeSteps \o values
               /\ req' = [req EXCEPT ![i].pc = "equipment"]
               /\ UNCHANGED <<recipes, recipeIngredients, recipeEquipment, txStatus>>
  /\ UNCHANGED <<userPreferences, nextRecipeId, rd, fn>>
  /\ UNCHANGED <<socialVars, op>>

InsertEquipment(i) ==
  /\ req[i].pc = "equipment"
  /\ LET r == req[i] IN
     IF \E k \in 1..Len(r.generatedRecipe.equipmentUsed) : r.generatedRecipe.equipmentUsed[k].t # "str"
     THEN Abort(i, req[i], "TypeError")
     ELSE LET values == equipmentValues(r.generatedRecipe, r.equipmentData, r.recipeId, i) IN
          IF values = <<>>
          THEN /\ req' = [req EXCEPT ![i].pc = "commit"]
               /\ UNCHANGED <<recipes, recipeIngredients, recipeSteps, recipeEquipment, txStatus>>
          ELSE \E storeFails \in BOOLEAN :
                 IF storeFails
                 THEN Abort(i, req[i], StoreError("recipe_equipment"))
                 ELSE /\ recipeEquipment' = recipeEquipment \o values
                      /\ req' = [req EXCEPT ![i].pc = "commit"]
                      /\ UNCHANGED <<recipes, recipeIngredients, recipeSteps, txStatus>>
  /\ UNCHANGED <<userPreferences, nextRecipeId, rd, fn>>
  /\ UNCHANGED <<socialVars, op>>

\* the callback returned: COMMIT, then the handler reads the recipe back and answers 200
Commit(i) ==
  /\ req[i].pc = "commit"
  /\ txStatus' = [txStatus EXCEPT ![i] = TxOutcome(FALSE)]
  /\ req' = [req EXCEPT ![i].pc = "fetch"]
  /\ UNCHANGED <<recipes, recipeIngredients, recipeSteps, recipeEquipment, userPreferences,
                 nextRecipeId, rd, fn>>
  /\ UNCHANGED <<socialVars, op>>


(***************************************************************************)
(* Queries of the read path                                                *)
(***************************************************************************)
RECURSIVE InsertSorted(_, _, _)
InsertSorted(Less(_, _), row, sorted) ==
  IF sorted = <<>> THEN <<row>>
  ELSE IF Less(row, Head(sorted)) THEN <<row>> \o sorted
  ELSE <<Head(sorted)>> \o InsertSorted(Less, row, Tail(sorted))

RECURSIVE SortBy(_, _)
\* ORDER BY: rows with equal keys keep their heap order
SortBy(Less(_, _), rows) ==
  IF rows = <<>> THEN <<>>
  ELSE InsertSorted(Less, rows[Len(rows)], SortBy(Less, SubSeq(rows, 1, Len(rows) - 1)))

Map(F(_), s) == [i \in 1..Len(s) |-> F(s[i])]

\* a recipes row as a select returns it
RecipeRow(row) ==
  [id |-> row.id, name |-> row.name, description |-> row.description,
   moodId |-> row.moodId, userId |-> row.userId, createdAt |-> row.createdAt]

\* .limit(limit).offset(offset)
Page(rows, limit, offset) ==
  IF offset >= Len(rows) THEN <<>>
  ELSE SubSeq(rows, offset + 1, IF offset + limit > Len(rows) THEN Len(rows) ELSE offset + limit)

NewestFirst(a, b) == a.createdAt > b.createdAt

\* select().from(recipes).orderBy(desc(recipes.createdAt)).limit(limit).offset(offset)
SelectRecipes(limit, offset) ==
  Page(SortBy(NewestFirst, Map(RecipeRow, Committed(recipes))), limit, offset)

\* select().from(recipes).where(eq(recipes.userId, uid)).orderBy(desc(createdAt)).limit().offset()
SelectUserRecipes(uid, limit, offset) ==
  LET Own(row) == row.userId = uid IN
  Page(SortBy(NewestFirst, Map(RecipeRow, SelectSeq(Committed(recipes), Own))), limit, offset)

\* select().from(recipes).where(eq(recipes.id, recipeId)).limit(1)
SelectRecipeById(recipeId) ==
  LET Is(row) == row.id = recipeId IN Page(Map(RecipeRow, SelectSeq(Committed(recipes), Is)), 1, 0)

\* select().from(moods).where(inArray(moods.id, moodIds))
SelectMoods(moodIds) == LET In(row) == row.id \in moodIds IN SelectSeq(moods, In)

\* recipe_ingredients inner join ingredients, where recipe_id in recipeIds
SelectIngredients(recipeIds) ==
  LET In(row) == row.recipeId \in recipeIds /\ \E k \in 1..Len(ingredients) : ingredients[k].id = row.ingredientId
      Joined(row) ==
        LET ing == ingredients[CHOOSE k \in 1..Len(ingredients) : ingredients[k].id = row.ingredientId]
        IN [recipeId |-> row.recipeId, amount |-> row.amount, ingredientId |-> ing.id,
            ingredientName |-> ing.name, ingredientIcon |-> ing.icon]
  IN Map(Joined, SelectSeq(Committed(recipeIngredients), In))

StepOrder(a, b) ==
  a.recipeId < b.recipeId \/ (a.recipeId = b.recipeId /\ a.stepNumber < b.stepNumber)

\* select().from(recipeSteps).where(recipe_id in recipeIds).orderBy(recipeId, stepNumber)
SelectSteps(recipeIds) ==
  LET In(row) == row.recipeId \in recipeIds
      Row(row) == [recipeId |-> row.recipeId, stepNumber |-> row.stepNumber, instruction |-> row.instruction]
  IN SortBy(StepOrder, Map(Row, SelectSeq(Committed(recipeSteps), In)))

\* recipe_equipment inner join equipment, where recipe_id in recipeIds
SelectEquipment(recipeIds) ==
  LET In(row) == row.recipeId \in recipeIds /\ \E k \in 1..Len(equipment) : equipment[k].id = row.equipmentId
      Joined(row) ==
        LET e == equipment[CHOOSE k \in 1..Len(equipment) : equipment[k].id = row.equipmentId]
        IN [recipeId |-> row.recipeId, equipmentId |-> e.id,
            equipmentName |-> e.name, equipmentIcon |-> e.icon]
  IN Map(Joined, SelectSeq(Committed(recipeEquipment), In))

(***************************************************************************)
(* getCompleteRecipes (batch) and getCompleteRecipe (single)               *)
(***************************************************************************)
IngredientView(ri) ==
  [id |-> ri.ingredientId, name |-> ri.ingredientName, icon |-> ri.ingredientIcon, amount |-> ri.amount]
EquipmentView(re) == [id |-> re.equipmentId, name |-> re.equipmentName, icon |-> re.equipmentIcon]
StepView(st) == st.instruction

View(recipe, mood, ings, steps, equip) ==
  [id |-> recipe.id, name |-> recipe.name, description |-> recipe.description,
   moodId |-> recipe.moodId, userId |-> recipe.userId, createdAt |-> recipe.createdAt,
   mood |-> mood, ingredients |-> ings, steps |-> steps, equipment |-> equip]

\* [...new Set(recipeList.map((r) => r.moodId).filter((id) => id !== null))]
MoodIdsOf(recipeList) == {recipeList[k].moodId : k \in 1..Len(recipeList)} \ {SqlNull}
RecipeIdsOf(recipeList) == {recipeList[k].id : k \in 1..Len(recipeList)}

\* variant: the rows are not grouped
GroupOfAll(rows, recipeId) == rows

\* map.get(recipeId) || []  of the map the grouping loop builds
GroupOf(rows, recipeId) == LET Of(row) == row.recipeId = recipeId IN SelectSeq(rows, Of)

\* variant: the mood map is never hit
MoodOfMissing(moodsData, moodId) == NullMood

\* recipe.moodId ? moodMap.get(recipe.moodId) || null : null
MoodOf(moodsData, moodId) ==
  LET Is(m) == m.id = moodId
      found == SelectSeq(moodsData, Is)
  IN IF moodId # SqlNull /\ found # <<>> THEN found[Len(found)] ELSE NullMood

\* variant: the views come out in the order of the recipe IDs
AssembleViewsByRecipeId(recipeList, moodsData, allIngredients, allSteps, allEquipment) ==
  LET ByRecipeId(a, b) == a.id < b.id
      One(recipe) ==
        View(recipe, MoodOf(moodsData, recipe.moodId),
             Map(IngredientView, GroupOf(allIngredients, recipe.id)),
             Map(StepView, GroupOf(allSteps, recipe.id)),
             Map(EquipmentView, GroupOf(allEquipment, recipe.id)))
  IN Map(One, SortBy(ByRecipeId, recipeList))

\* the grouping and merge of getCompleteRecipes
AssembleViews(recipeList, moodsData, allIngredients, allSteps, allEquipment) ==
  LET One(recipe) ==
        View(recipe, MoodOf(moodsData, recipe.moodId),
             Map(IngredientView, GroupOf(allIngredients, recipe.id)),
             Map(StepView, GroupOf(allSteps, recipe.id)),
             Map(EquipmentView, GroupOf(allEquipment, recipe.id)))
  IN Map(One, recipeList)

\* variant: one read per recipe
PerRecipeReadCost(recipeIds) == Cardinality(recipeIds)

\* store round trips of one bulk read
BulkReadCost(recipeIds) == 1

\* getCompleteRecipes with all its reads on one store state: the views and the reads issued
getCompleteRecipes(recipeList) ==
  LET recipeIds == RecipeIdsOf(recipeList)
      moodIds == MoodIdsOf(recipeList)
      moodsData == IF moodIds # {} THEN SelectMoods(moodIds) ELSE <<>>
  IN [views |-> AssembleViews(recipeList, moodsData, SelectIngredients(recipeIds),
                              SelectSteps(recipeIds), SelectEquipment(recipeIds)),
      reads |-> (IF moodIds # {} THEN BulkReadCost(moodIds) ELSE 0)
                + BulkReadCost(recipeIds) + BulkReadCost(recipeIds) + BulkReadCost(recipeIds)]

\* routes/users.ts: the same function behind  if (recipeList.length === 0) return []
getCompleteRecipesOfUsers(recipeList) ==
  IF Len(recipeList) = 0 THEN [views |-> <<>>, reads |-> 0] ELSE getCompleteRecipes(recipeList)

\* the view of getCompleteRecipe from its five reads
SingleView(recipe, moodData, recipeIngredientsData, steps, recipeEquipmentData) ==
  View(recipe,
       IF recipe.moodId # SqlNull /\ moodData # <<>> THEN moodData[1] ELSE NullMood,
       Map(IngredientView, recipeIngredientsData),
       Map(StepView, steps),
       Map(EquipmentView, recipeEquipmentData))

\* recipe_ingredients inner join ingredients, where recipe_id = recipeId
SelectIngredientsOf(recipeId) ==
  LET Of(row) == row.recipeId = recipeId /\ \E k \in 1..Len(ingredients) : ingredients[k].id = row.ingredientId
      Joined(row) ==
        LET ing == ingredients[CHOOSE k \in 1..Len(ingredients) : ingredients[k].id = row.ingredientId]
        IN [recipeId |-> row.recipeId, amount |-> row.amount, ingredientId |-> ing.id,
            ingredientName |-> ing.name, ingredientIcon |-> ing.icon]
  IN Map(Joined, SelectSeq(Committed(recipeIngredients), Of))

ByStepNumber(a, b) == a.stepNumber < b.stepNumber

\* select().from(recipeSteps).where(recipe_id = recipeId).orderBy(stepNumber)
SelectStepsOf(recipeId) ==
  LET Of(row) == row.recipeId = recipeId
      Row(row) == [recipeId |-> row.recipeId, stepNumber |-> row.stepNumber, instruction |-> row.instruction]
  IN SortBy(ByStepNumber, Map(Row, SelectSeq(Committed(recipeSteps), Of)))

\* recipe_equipment inner join equipment, where recipe_id = recipeId
SelectEquipmentOf(recipeId) ==
  LET Of(row) == row.recipeId = recipeId /\ \E k \in 1..Len(equipment) : equipment[k].id = row.equipmentId
      Joined(row) ==
        LET e == equipment[CHOOSE k \in 1..Len(equipment) : equipment[k].id = row.equipmentId]
        IN [recipeId |-> row.recipeId, equipmentId |-> e.id,
            equipmentName |-> e.name, equipmentIcon |-> e.icon]
  IN Map(Joined, SelectSeq(Committed(recipeEquipment), Of))

\* select().from(moods).where(eq(moods.id, moodId)).limit(1)
SelectMoodById(moodId) == LET Is(row) == row.id = moodId IN Page(SelectSeq(moods, Is), 1, 0)

\* getCompleteRecipe with all its reads on one store state; <<>> stands for null
getCompleteRecipe(recipeId) ==
  LET found == SelectRecipeById(recipeId) IN
  IF found = <<>> THEN <<>>
  ELSE LET recipe == found[1]
           moodData == IF recipe.moodId # SqlNull THEN SelectMoodById(recipe.moodId) ELSE <<>>
       IN << SingleView(recipe, moodData, SelectIngredientsOf(recipeId),
                        SelectStepsOf(recipeId), SelectEquipmentOf(recipeId)) >>

(***************************************************************************)
(* The reading requests, one store read per step                           *)
(***************************************************************************)
IdleReader ==
  [pc |-> "idle", kind |-> "", recipeList |-> <<>>, moodsData |-> <<>>,
   allIngredients |-> <<>>, allSteps |-> <<>>, allEquipment |-> <<>>,
   reads |-> 0, views |-> <<>>, status |-> 0]

\* limit and offset of the list requests
PageInputs == {<<10, 0>>, <<1, 1>>}

ReaderStarted(kind, recipeList) ==
  IF recipeList = <<>>
  THEN [IdleReader EXCEPT !.pc = "done", !.kind = kind, !.status = IF kind = "byId" THEN 404 ELSE 200]
  ELSE [IdleReader EXCEPT !.pc = "moods", !.kind = kind, !.recipeList = recipeList]

\* GET /api/recipes: the page query
ListRecipes ==
  /\ rd.pc \in {"idle", "done"}
  /\ \E page \in PageInputs : rd' = ReaderStarted("list", SelectRecipes(page[1], page[2]))
  /\ UNCHANGED <<storeVars, req, fn>>
  /\ UNCHANGED <<socialVars, op>>

\* GET /api/users/me/recipes: the page query
ListUserRecipes ==
  /\ rd.pc \in {"idle", "done"}
  /\ \E uid \in Users, page \in PageInputs :
       rd' = ReaderStarted("mine", SelectUserRecipes(uid, page[1], page[2]))
  /\ UNCHANGED <<storeVars, req, fn>>
  /\ UNCHANGED <<socialVars, op>>

\* GET /api/recipes/:id: the recipe query of getCompleteRecipe
GetRecipe ==
  /\ rd.pc \in {"idle", "done"}
  /\ \E id \in Requests : rd' = ReaderStarted("byId", SelectRecipeById(id))
  /\ UNCHANGED <<storeVars, req, fn>>
  /\ UNCHANGED <<socialVars, op>>

ReadMoods ==
  /\ rd.pc = "moods"
  /\ IF rd.kind = "byId"
     THEN IF rd.recipeList[1].moodId # SqlNull
          THEN rd' = [rd EXCEPT !.pc = "ingredients", !.reads = @ + 1,
                                !.moodsData = SelectMoodById(rd.recipeList[1].moodId)]
          ELSE rd' = [rd EXCEPT !.pc = "ingredients"]
     ELSE IF MoodIdsOf(rd.recipeList) # {}
          THEN rd' = [rd EXCEPT !.pc = "ingredients",
                                !.reads = @ + BulkReadCost(MoodIdsOf(rd.recipeList)),
                                !.moodsData = SelectMoods(MoodIdsOf(rd.recipeList))]
          ELSE rd' = [rd EXCEPT !.pc = "ingredients"]
  /\ UNCHANGED <<storeVars, req, fn>>
  /\ UNCHANGED <<socialVars, op>>

ReadIngredients ==
  /\ rd.pc = "ingredients"
  /\ IF rd.kind = "byId"
     THEN rd' = [rd EXCEPT !.pc = "steps", !.reads = @ + 1,
                           !.allIngredients = SelectIngredientsOf(rd.recipeList[1].id)]
     ELSE rd' = [rd EXCEPT !.pc = "steps",
                           !.reads = @ + BulkReadCost(RecipeIdsOf(rd.recipeList)),
                           !.allIngredients = SelectIngredients(RecipeIdsOf(rd.recipeList))]
  /\ UNCHANGED <<storeVars, req, fn>>
  /\ UNCHANGED <<socialVars, op>>

ReadSteps ==
  /\ rd.pc = "steps"
  /\ IF rd.kind = "byId"
     THEN rd' = [rd EXCEPT !.pc = "equipment", !.reads = @ + 1,
                           !.allSteps = SelectStepsOf(rd.recipeList[1].id)]
     ELSE rd' = [rd EXCEPT !.pc = "equipment",
                           !.reads = @ + BulkReadCost(RecipeIdsOf(rd.recipeList)),
                           !.allSteps = SelectSteps(RecipeIdsOf(rd.recipeList))]
  /\ UNCHANGED <<storeVars, req, fn>>
  /\ UNCHANGED <<socialVars, op>>

\* the last read, then the merge and the 200 answer
ReadEquipment ==
  /\ rd.pc = "equipment"
  /\ IF rd.kind = "byId"
     THEN LET data == SelectEquipmentOf(rd.recipeList[1].id) IN
          rd' = [IdleReader EXCEPT !.pc = "done", !.kind = rd.kind, !.status = 200,
                                   !.recipeList = rd.recipeList, !.reads = rd.reads + 1,
                                   !.views = << SingleView(rd.recipeList[1], rd.moodsData,
                                                           rd.allIngredients, rd.allSteps, data) >>]
     ELSE LET data == SelectEquipment(RecipeIdsOf(rd.recipeList)) IN
          rd' = [IdleReader EXCEPT !.pc = "done", !.kind = rd.kind, !.status = 200,
                                   !.recipeList = rd.recipeList,
                                   !.reads = rd.reads + BulkReadCost(RecipeIdsOf(rd.recipeList)),
                                   !.views = AssembleViews(rd.recipeList, rd.moodsData,
                                                           rd.allIngredients, rd.allSteps, data)]
  /\ UNCHANGED <<storeVars, req, fn>>
  /\ UNCHANGED <<socialVars, op>>

\* const completeRecipe = await getCompleteRecipe(savedRecipe.id); return c.json(...)
Fetch(i) ==
  /\ req[i].pc = "fetch"
  /\ req' = [req EXCEPT ![i] = Respond(req[i], 200, "")]
  /\ UNCHANGED <<storeVars, rd, fn>>
  /\ UNCHANGED <<socialVars, op>>

(***************************************************************************)
(* buildRecipePrompt: the prompt as a sequence of pieces of text           *)
(***************************************************************************)
RECURSIVE JoinReversed(_, _)
RECURSIVE Join(_, _)
\* variant: the names are joined last to first
JoinReversed(names, separator) ==
  IF names = <<>> THEN <<>>
  ELSE IF Len(names) = 1 THEN <<names[1]>>
  ELSE JoinReversed(Tail(names), separator) \o <<separator, names[1]>>

\* Array.prototype.join(separator)
Join(names, separator) ==
  IF names = <<>> THEN <<>>
  ELSE IF Len(names) = 1 THEN <<names[1]>>
  ELSE <<names[1], separator>> \o Join(Tail(names), separator)

PromptHead ==
  << "You are a professional mixologist. Create a unique cocktail recipe based on the following constraints:",
     NL, NL >>

PromptInstructions ==
  << "INSTRUCTIONS:", NL,
     "1. Create a creative cocktail recipe that matches the mood", NL,
     "2. ONLY use ingredients from the available ingredients list", NL,
     "3. ONLY use equipment from the available equipment list", NL,
     "4. Provide specific measurements for each ingredient (e.g., ", QUOTE, "2 oz", QUOTE, ", ",
     QUOTE, "1/2 oz", QUOTE, ", ", QUOTE, "3 dashes", QUOTE, ", ", QUOTE, "1 whole", QUOTE, ")", NL,
     "5. Provide clear, numbered step-by-step instructions", NL,
     "6. Make the recipe realistic and achievable with the given equipment", NL, NL >>

\* the output-format contract: the JSON object the answer has to be
PromptFormat ==
  << "Return your response in the following JSON format:", NL,
     "{", NL,
     "  ", QUOTE, "name", QUOTE, ": ", QUOTE, "Cocktail Name", QUOTE, ",", NL,
     "  ", QUOTE, "description", QUOTE, ": ", QUOTE,
     "Brief description of the cocktail (1-2 sentences)", QUOTE, ",", NL,
     "  ", QUOTE, "ingredients", QUOTE, ": [", NL,
     "    {", NL,
     "      ", QUOTE, "name", QUOTE, ": ", QUOTE,
     "Ingredient name (must match exactly from available ingredients)", QUOTE, ",", NL,
     "      ", QUOTE, "amount", QUOTE, ": ", QUOTE, "Measurement", QUOTE, NL,
     "    }", NL,
     "  ],", NL,
     "  ", QUOTE, "steps", QUOTE, ": [", NL,
     "    ", QUOTE, "Step 1 instruction", QUOTE, ",", NL,
     "    ", QUOTE, "Step 2 instruction", QUOTE, NL,
     "  ],", NL,
     "  ", QUOTE, "equipmentUsed", QUOTE, ": [", QUOTE, "Equipment 1", QUOTE, ", ", QUOTE,
     "Equipment 2", QUOTE, "]", NL,
     "}", NL, NL >>

buildRecipePrompt(params) ==
  PromptHead
  \o <<"AVAILABLE EQUIPMENT:", NL>> \o Join(params.equipmentNames, ", ") \o <<NL, NL>>
  \o <<"AVAILABLE INGREDIENTS:", NL>> \o Join(params.ingredientNames, ", ") \o <<NL, NL>>
  \o <<"MOOD: ", params.moodName, NL>>
  \o <<"Description: ", params.moodDescription, NL>>
  \o <<"Example drinks for inspiration: ", params.moodExamples, NL, NL>>
  \o PromptInstructions
  \o PromptFormat
  \o <<"Ensure the cocktail is creative, delicious, and perfectly matches the ",
       params.moodName, " mood.">>

(***************************************************************************)
(* Users, ratings and favorites                                            *)
(***************************************************************************)
\* the callers a token can authenticate: AuthUser.email is optional, and the token
\* of u3 carries none
AuthUsers == Users \cup {"u3"}
NoEmail == ""
EmailOf(uid) ==
  CASE uid = "u1" -> "u1@mixr.local"
    [] uid = "u2" -> "u2@mixr.local"
    [] OTHER -> NoEmail

\* authUser.email.split('@')[0]
DisplayNameOf(email) ==
  CASE email = "u1@mixr.local" -> "u1"
    [] email = "u2@mixr.local" -> "u2"
    [] OTHER -> ""

\* number of concurrent requests of the rating, favorite and user routes
MaxCalls == 2
Calls == 1..MaxCalls

\* a text column that holds NULL
NullText == "<null>"

NoStats == [totalRatings |-> 0, averageRating |-> 0]
NoDistribution == [s \in 1..5 |-> 0]

IdleOp ==
  [pc |-> "idle", kind |-> "none", user |-> "", recipeId |-> 0, ratingId |-> 0, stars |-> 0,
   review |-> "", limit |-> 0, offset |-> 0, status |-> 0, stats |-> NoStats,
   distribution |-> NoDistribution, favorites |-> <<>>, recipeList |-> <<>>, views |-> <<>>]

NoSocial ==
  /\ users = {}
  /\ recipeRatings = <<>>
  /\ userFavorites = <<>>
  /\ nextRatingId = 1
  /\ clock = 1
  /\ op = [i \in Calls |-> IdleOp]

\* a handler is entered by a call that has none in flight
Entered(i, kind, user, recipeId) ==
  [IdleOp EXCEPT !.pc = "user", !.kind = kind, !.user = user, !.recipeId = recipeId]

\* return c.json(..., status): the locals of the handler end with it
Answer(o, status) ==
  [IdleOp EXCEPT !.pc = "done", !.kind = o.kind, !.status = status, !.stats = o.stats,
                 !.distribution = o.distribution, !.views = o.views]

\* select().from(users).where(eq(users.id, authUser.uid)).limit(1)
SelectUserById(uid) == {row \in users : row.id = uid}

\* the pc of a handler after  await getOrCreateUser(authUser)
AfterUser(kind) ==
  CASE kind \in {"rate", "favorite"} -> "recipe"
    [] kind = "unfavorite" -> "delete"
    [] OTHER -> "select"

\* getOrCreateUser:  if (!user && authUser.email)
MustCreateUser(uid) == SelectUserById(uid) = {} /\ EmailOf(uid) # NoEmail

\* getOrCreateUser, the select
SelectUser(i) ==
  /\ op[i].pc = "user"
  /\ op' = [op EXCEPT ![i].pc = IF MustCreateUser(op[i].user) THEN "createUser"
                                 ELSE AfterUser(op[i].kind)]
  /\ UNCHANGED <<storeVars, req, rd, fn, socialVars>>

\* users.id is the primary key: the insert of a second row of one id is refused
UserKeyRefuses(uid) == \E row \in users : row.id = uid

\* getOrCreateUser, the insert; a refused insert throws into the catch of the handler
InsertUser(i) ==
  /\ op[i].pc = "createUser"
  /\ LET uid == op[i].user IN
     IF UserKeyRefuses(uid)
     THEN /\ op' = [op EXCEPT ![i] = Answer(op[i], 500)]
          /\ UNCHANGED users
     ELSE /\ users' = users \cup {[id |-> uid, email |-> EmailOf(uid),
                                   displayName |-> DisplayNameOf(EmailOf(uid))]}
          /\ op' = [op EXCEPT ![i].pc = AfterUser(op[i].kind)]
  /\ UNCHANGED <<storeVars, req, rd, fn, recipeRatings, userFavorites, nextRatingId, clock>>

\* select().from(recipes).where(eq(recipes.id, id)).limit(1);  if (!recipe) 404
SelectRecipe(i) ==
  /\ op[i].pc = "recipe"
  /\ op' = [op EXCEPT ![i] = IF SelectRecipeById(op[i].recipeId) = <<>>
                             THEN Answer(op[i], 404)
                             ELSE [op[i] EXCEPT !.pc = "write"]]
  /\ UNCHANGED <<storeVars, req, rd, fn, socialVars>>

\* user_id references users.id: a row of a user without a users row is refused
UserForeignKeyRefuses(uid) == ~ \E row \in users : row.id = uid

(***************************************************************************)
(* POST /api/recipes/:id/ratings                                           *)
(***************************************************************************)
\* number of rows recipe_ratings.id is drawn for
MaxRatingId == 2

\* submitRatingSchema: stars is an integer of 1..5
ValidStars(stars) == stars >= 1 /\ stars <= 5

\* review || null
ReviewOrNull(review) == IF review = "" THEN NullText ELSE review

\* the row of unique_user_recipe (user_id, recipe_id), 0 when there is none
ConflictingRating(table, uid, recipeId) ==
  LET hits == {k \in 1..Len(table) : table[k].userId = uid /\ table[k].recipeId = recipeId}
  IN IF hits = {} THEN 0 ELSE MinOf(hits)

\* variant: a plain insert on a table without the unique constraint
InsertRating(table, id, uid, recipeId, stars, review) ==
  Append(table, [id |-> id, recipeId |-> recipeId, userId |-> uid, stars |-> stars,
                 review |-> ReviewOrNull(review)])

\* insert(recipeRatings).values(...).onConflictDoUpdate({target: [userId, recipeId],
\*   set: {stars, review: review || null, updatedAt}})
UpsertRating(table, id, uid, recipeId, stars, review) ==
  LET k == ConflictingRating(table, uid, recipeId) IN
  IF k = 0
  THEN Append(table, [id |-> id, recipeId |-> recipeId, userId |-> uid, stars |-> stars,
                      review |-> ReviewOrNull(review)])
  ELSE [table EXCEPT ![k].stars = stars, ![k].review = ReviewOrNull(review)]

RatingRecipeIds == {1, 2, 9}
\* the bodies: stars out of range, stars alone, stars with a review
RatingBodies == {[stars |-> 0, review |-> ""], [stars |-> 2, review |-> ""],
                 [stars |-> 5, review |-> "Great"]}

\* the handler up to getOrCreateUser: the body is checked against submitRatingSchema
StartSubmitRating(i) ==
  /\ op[i].pc \in {"idle", "done"}
  /\ \E user \in AuthUsers, id \in RatingRecipeIds, body \in RatingBodies :
       op' = [op EXCEPT ![i] =
                IF ~ ValidStars(body.stars)
                THEN Answer([IdleOp EXCEPT !.kind = "rate"], 400)
                ELSE [Entered(i, "rate", user, id) EXCEPT !.stars = body.stars,
                                                          !.review = body.review]]
  /\ UNCHANGED <<storeVars, req, rd, fn, socialVars>>

\* the upsert of the rating; a refused row throws into the catch of the handler
SubmitRating(i) ==
  /\ op[i].pc = "write"
  /\ op[i].kind = "rate"
  /\ LET o == op[i] IN
     IF UserForeignKeyRefuses(o.user)
     THEN /\ op' = [op EXCEPT ![i] = Answer(o, 500)]
          /\ UNCHANGED <<recipeRatings, nextRatingId>>
     ELSE /\ ConflictingRating(recipeRatings, o.user, o.recipeId) = 0 => nextRatingId <= MaxRatingId
          /\ recipeRatings' = UpsertRating(recipeRatings, nextRatingId, o.user, o.recipeId,
                                           o.stars, o.review)
          /\ nextRatingId' = IF ConflictingRating(recipeRatings, o.user, o.recipeId) = 0
                             THEN nextRatingId + 1 ELSE nextRatingId
          /\ op' = [op EXCEPT ![i] = Answer(o, 200)]
  /\ UNCHANGED <<storeVars, req, rd, fn, users, userFavorites, clock>>

(***************************************************************************)
(* DELETE /api/recipes/:recipeId/ratings/:ratingId                         *)
(***************************************************************************)
\* variant: the rating is looked up by its ID and its recipe alone
SelectRatingOfAnyUser(ratingId, recipeId, uid) ==
  LET Is(row) == row.id = ratingId /\ row.recipeId = recipeId
  IN Page(SelectSeq(recipeRatings, Is), 1, 0)

\* select().from(recipeRatings).where(and(eq(id, ratingId), eq(recipeId, recipeId),
\*   eq(userId, authUser.uid))).limit(1)
SelectOwnRating(ratingId, recipeId, uid) ==
  LET Is(row) == row.id = ratingId /\ row.recipeId = recipeId /\ row.userId = uid
  IN Page(SelectSeq(recipeRatings, Is), 1, 0)

\* delete(recipeRatings).where(eq(recipeRatings.id, ratingId))
WithoutRating(table, ratingId) == LET Other(row) == row.id # ratingId IN SelectSeq(table, Other)

RatingIdInputs == 1..MaxRatingId

StartDeleteRating(i) ==
  /\ op[i].pc \in {"idle", "done"}
  /\ \E user \in AuthUsers, recipeId \in RatingRecipeIds, ratingId \in RatingIdInputs :
       op' = [op EXCEPT ![i] = [IdleOp EXCEPT !.pc = "find", !.kind = "unrate", !.user = user,
                                              !.recipeId = recipeId, !.ratingId = ratingId]]
  /\ UNCHANGED <<storeVars, req, rd, fn, socialVars>>

\* the lookup of the rating;  if (!rating) 404
SelectRating(i) ==
  /\ op[i].pc = "find"
  /\ op' = [op EXCEPT ![i] = IF SelectOwnRating(op[i].ratingId, op[i].recipeId, op[i].user) = <<>>
                             THEN Answer(op[i], 404)
                             ELSE [op[i] EXCEPT !.pc = "delete"]]
  /\ UNCHANGED <<storeVars, req, rd, fn, socialVars>>

DeleteRating(i) ==
  /\ op[i].pc = "delete"
  /\ op[i].kind = "unrate"
  /\ recipeRatings' = WithoutRating(recipeRatings, op[i].ratingId)
  /\ op' = [op EXCEPT ![i] = Answer(op[i], 200)]
  /\ UNCHANGED <<storeVars, req, rd, fn, users, userFavorites, nextRatingId, clock>>

(***************************************************************************)
(* GET /api/recipes/:id/ratings/aggregate                                  *)
(***************************************************************************)
RECURSIVE SumOfStars(_)
SumOfStars(rows) == IF rows = <<>> THEN 0 ELSE rows[1].stars + SumOfStars(Tail(rows))

RatingsOf(recipeId) == LET Of(row) == row.recipeId = recipeId IN SelectSeq(recipeRatings, Of)

\* round(avg(stars)::numeric, 1), in tenths; avg of no row is NULL
AverageInTenths(rows) ==
  IF rows = <<>> THEN SqlNull ELSE (20 * SumOfStars(rows) + Len(rows)) \div (2 * Len(rows))

\* select count(*)::int, round(avg(stars)::numeric, 1)::float where recipe_id = recipeId
SelectRatingStats(recipeId) ==
  [totalRatings |-> Len(RatingsOf(recipeId)), averageRating |-> AverageInTenths(RatingsOf(recipeId))]

\* select stars, count(*)::int where recipe_id = recipeId group by stars, put into the
\* object that starts with a zero for each of '1'..'5'
SelectRatingDistribution(recipeId) ==
  [s \in 1..5 |-> Cardinality({k \in 1..Len(recipeRatings) :
                     recipeRatings[k].recipeId = recipeId /\ recipeRatings[k].stars = s})]

StartAggregate(i) ==
  /\ op[i].pc \in {"idle", "done"}
  /\ \E recipeId \in RatingRecipeIds :
       op' = [op EXCEPT ![i] = [IdleOp EXCEPT !.pc = "stats", !.kind = "aggregate",
                                              !.recipeId = recipeId]]
  /\ UNCHANGED <<storeVars, req, rd, fn, socialVars>>

\* the first query: total and average
SelectStats(i) ==
  /\ op[i].pc = "stats"
  /\ op' = [op EXCEPT ![i].pc = "distribution", ![i].stats = SelectRatingStats(op[i].recipeId)]
  /\ UNCHANGED <<storeVars, req, rd, fn, socialVars>>

\* the second query and the answer
SelectDistribution(i) ==
  /\ op[i].pc = "distribution"
  /\ op' = [op EXCEPT ![i] = Answer([op[i] EXCEPT
                                       !.distribution = SelectRatingDistribution(op[i].recipeId)], 200)]
  /\ UNCHANGED <<storeVars, req, rd, fn, socialVars>>

(***************************************************************************)
(* POST /api/users/me/favorites, DELETE /api/users/me/favorites/:recipeId  *)
(***************************************************************************)
\* number of readings of now() that differ
MaxClock == 2

\* addFavoriteSchema: recipe_id is a positive integer
ValidRecipeId(recipe_id) == recipe_id > 0

\* the row of the primary key (user_id, recipe_id), if any
HasFavorite(table, uid, recipeId) ==
  \E k \in 1..Len(table) : table[k].userId = uid /\ table[k].recipeId = recipeId

\* insert(userFavorites).values({userId, recipeId}).onConflictDoNothing()
InsertFavorite(table, uid, recipeId, createdAt) ==
  IF HasFavorite(table, uid, recipeId) THEN table
  ELSE Append(table, [userId |-> uid, recipeId |-> recipeId, createdAt |-> createdAt])

\* delete(userFavorites).where(and(eq(userId, authUser.uid), eq(recipeId, recipeId)))
WithoutFavorite(table, uid, recipeId) ==
  LET Other(row) == ~ (row.userId = uid /\ row.recipeId = recipeId) IN SelectSeq(table, Other)

FavoriteRecipeIds == {0, 1, 2, 9}

StartAddFavorite(i) ==
  /\ op[i].pc \in {"idle", "done"}
  /\ \E user \in AuthUsers, recipe_id \in FavoriteRecipeIds :
       op' = [op EXCEPT ![i] = IF ~ ValidRecipeId(recipe_id)
                               THEN Answer([IdleOp EXCEPT !.kind = "favorite"], 400)
                               ELSE Entered(i, "favorite", user, recipe_id)]
  /\ UNCHANGED <<storeVars, req, rd, fn, socialVars>>

\* the insert of the favorite; a refused row throws into the catch of the handler
AddFavorite(i) ==
  /\ op[i].pc = "write"
  /\ op[i].kind = "favorite"
  /\ LET o == op[i] IN
     IF UserForeignKeyRefuses(o.user)
     THEN /\ op' = [op EXCEPT ![i] = Answer(o, 500)]
          /\ UNCHANGED <<userFavorites, clock>>
     ELSE /\ ~ HasFavorite(userFavorites, o.user, o.recipeId) => clock <= MaxClock
          /\ userFavorites' = InsertFavorite(userFavorites, o.user, o.recipeId, clock)
          /\ clock' = IF HasFavorite(userFavorites, o.user, o.recipeId) THEN clock ELSE clock + 1
          /\ op' = [op EXCEPT ![i] = Answer(o, 200)]
  /\ UNCHANGED <<storeVars, req, rd, fn, users, recipeRatings, nextRatingId>>

StartRemoveFavorite(i) ==
  /\ op[i].pc \in {"idle", "done"}
  /\ \E user \in AuthUsers, recipeId \in FavoriteRecipeIds \ {0} :
       op' = [op EXCEPT ![i] = Entered(i, "unfavorite", user, recipeId)]
  /\ UNCHANGED <<storeVars, req, rd, fn, socialVars>>

RemoveFavorite(i) ==
  /\ op[i].pc = "delete"
  /\ op[i].kind = "unfavorite"
  /\ userFavorites' = WithoutFavorite(userFavorites, op[i].user, op[i].recipeId)
  /\ op' = [op EXCEPT ![i] = Answer(op[i], 200)]
  /\ UNCHANGED <<storeVars, req, rd, fn, users, recipeRatings, nextRatingId, clock>>

(***************************************************************************)
(* GET /api/users/me/favorites                                             *)
(***************************************************************************)
\* select({recipeId, createdAt}).from(userFavorites).where(eq(userId, uid))
\*   .orderBy(desc(userFavorites.createdAt)).limit(limit).offset(offset)
SelectFavorites(uid, limit, offset) ==
  LET Own(row) == row.userId = uid
      Columns(row) == [recipeId |-> row.recipeId, createdAt |-> row.createdAt]
  IN Page(SortBy(NewestFirst, Map(Columns, SelectSeq(userFavorites, Own))), limit, offset)

\* favorites.map((f) => f.recipeId)
FavoriteRecipeIdsOf(favorites) == {favorites[k].recipeId : k \in 1..Len(favorites)}

\* select().from(recipes).where(inArray(recipes.id, favoriteRecipeIds)): without an
\* ORDER BY the rows come as the heap holds them
SelectFavoriteRecipes(favoriteRecipeIds) ==
  LET In(row) == row.id \in favoriteRecipeIds IN Map(RecipeRow, SelectSeq(Committed(recipes), In))

StartListFavorites(i) ==
  /\ op[i].pc \in {"idle", "done"}
  /\ \E user \in AuthUsers, page \in PageInputs :
       op' = [op EXCEPT ![i] = [Entered(i, "favorites", user, 0) EXCEPT !.limit = page[1],
                                                                       !.offset = page[2]]]
  /\ UNCHANGED <<storeVars, req, rd, fn, socialVars>>

\* the page of the favorites;  if (favorites.length === 0) data: []
ReadFavorites(i) ==
  /\ op[i].pc = "select"
  /\ LET favorites == SelectFavorites(op[i].user, op[i].limit, op[i].offset) IN
     op' = [op EXCEPT ![i] = IF Len(favorites) = 0 THEN Answer(op[i], 200)
                             ELSE [op[i] EXCEPT !.pc = "recipes", !.favorites = favorites]]
  /\ UNCHANGED <<storeVars, req, rd, fn, socialVars>>

\* the recipes of the page
ReadFavoriteRecipes(i) ==
  /\ op[i].pc = "recipes"
  /\ op' = [op EXCEPT ![i].pc = "assemble",
                      ![i].recipeList = SelectFavoriteRecipes(FavoriteRecipeIdsOf(op[i].favorites))]
  /\ UNCHANGED <<storeVars, req, rd, fn, socialVars>>

\* await getCompleteRecipes(favoriteRecipes) and the answer
AssembleFavorites(i) ==
  /\ op[i].pc = "assemble"
  /\ op' = [op EXCEPT ![i] = Answer([op[i] EXCEPT
                                       !.views = getCompleteRecipesOfUsers(op[i].recipeList).views], 200)]
  /\ UNCHANGED <<storeVars, req, rd, fn, socialVars>>

(***************************************************************************)
(* Specification of the running service                                    *)
(***************************************************************************)
\* u1 has saved preferences (one ID of no catalog record among them), u2 has none
SavedPreferences ==
  << [userId |-> "u1", equipmentIds |-> <<1>>, ingredientIds |-> <<2, 9>>] >>

Unused == [pc |-> "unused"]

Init ==
  /\ recipes = <<>>
  /\ recipeIngredients = <<>>
  /\ recipeSteps = <<>>
  /\ recipeEquipment = <<>>
  /\ userPreferences = SavedPreferences
  /\ txStatus = [tx \in 0..MaxRequests |-> IF tx = 0 THEN "committed" ELSE "none"]
  /\ nextRecipeId = 1
  /\ req = [i \in Requests |-> IdleRequest]
  /\ rd = IdleReader
  /\ NoSocial
  /\ fn = Unused

Next ==
  \/ \E i \in Requests :
       \/ Start(i)
       \/ Generate(i)
       \/ InsertRecipe(i)
       \/ InsertIngredients(i)
       \/ InsertSteps(i)
       \/ InsertEquipment(i)
       \/ Commit(i)
       \/ Fetch(i)
  \/ ListRecipes
  \/ ListUserRecipes
  \/ GetRecipe
  \/ ReadMoods
  \/ ReadIngredients
  \/ ReadSteps
  \/ ReadEquipment

Spec == Init /\ [][Next]_vars


(***************************************************************************)
(* Specification of parseRecipeResponse on the answers of a backend        *)
(***************************************************************************)
\* a member that the object does not have
Absent == JUndefined

\* the last name is a text that holds a markdown fence marker
NameChoices == {Absent, JStr("Mojito"), JStr(""), JNum("5"), JNull, JStr(FENCE)}
IngredientsChoices ==
  {Absent, JArr(<<>>), JArr(<<Ingredient("Vodka", "2 oz")>>), JStr("Vodka"),
   JArr(<<JNull, Ingredient("Lime Juice", "1 oz")>>)}
StepsChoices == {Absent, JArr(<<>>), JArr(<<JStr("Shake"), JStr("Pour")>>), JNull, JArr(<<JNum("5")>>)}
DescriptionChoices == {Absent, JStr("Classic"), JNum("5")}
EquipmentUsedChoices == {Absent, JArr(<<JStr("Shaker")>>), JStr("Shaker")}

Member(key, val) == IF val = Absent THEN <<>> ELSE << <<key, val>> >>

RecipeObject(name, description, ings, steps, equipmentUsed) ==
  JObj(Member("name", name) \o Member("description", description) \o Member("ingredients", ings)
       \o Member("steps", steps) \o Member("equipmentUsed", equipmentUsed))

ResponseValues ==
  { RecipeObject(n, d, i, st, e) :
      n \in NameChoices, d \in DescriptionChoices, i \in IngredientsChoices,
      st \in StepsChoices, e \in EquipmentUsedChoices }
  \cup {JNull, JBool(TRUE), JNum("5"), JStr("Mojito"), JArr(<<>>), JArr(<<JStr("Mojito")>>)}

Padded(body) == <<SP, NL>> \o body \o <<NL>>

MalformedContents ==
  { <<"no", SP, "json", SP, "here">>,
    <<SP, "no", SP, "json", NL>>,
    <<"{", QUOTE, "name", QUOTE, ":">>,
    <<"{", QUOTE, "name", QUOTE, ":", QUOTE, "Mojito", QUOTE, ",", "}">>,
    <<FENCE, "json", NL, "{", "}">>,
    <<"}", SP, "{", "}", SP, "{", "}", NL, "{">>,
    <<"{", "}", NL, FENCE, "json", NL, "5", NL, FENCE, NL, "{", "}">>,
    <<"}", SP, "{">>,
    <<SP>> }

\* how the backend wraps the JSON text of its answer
Wrappers == {"raw", "json fence", "bare fence", "prose", "padded"}

Wrap(wrapper, body) ==
  CASE wrapper = "raw" -> body
    [] wrapper = "json fence" -> JsonFenced(body)
    [] wrapper = "bare fence" -> BareFenced(body)
    [] wrapper = "prose" -> InProse(body)
    [] wrapper = "padded" -> Padded(body)

\* an answer: its text, and the value and the wrapper it was written from
ParseCases ==
  { [content |-> Wrap(w, Stringify(val)), source |-> val, wrapper |-> w] :
      val \in ResponseValues, w \in Wrappers }
  \cup { [content |-> c, source |-> Absent, wrapper |-> "none"] : c \in MalformedContents }

ParseInputs == {c.content : c \in ParseCases}

NoResult == Thrown("not called")

EmptyStore ==
  /\ recipes = <<>>
  /\ recipeIngredients = <<>>
  /\ recipeSteps = <<>>
  /\ recipeEquipment = <<>>
  /\ userPreferences = <<>>
  /\ txStatus = [tx \in 0..MaxRequests |-> IF tx = 0 THEN "committed" ELSE "none"]
  /\ nextRecipeId = 1

InitParse ==
  /\ EmptyStore
  /\ req = [i \in Requests |-> IdleRequest]
  /\ rd = IdleReader
  /\ NoSocial
  /\ fn \in {[pc |-> "input", content |-> c.content, source |-> c.source, wrapper |-> c.wrapper,
              jsonStr |-> <<>>, result |-> NoResult] : c \in ParseCases}

ParseResponse ==
  /\ fn.pc = "input"
  /\ fn' = [fn EXCEPT !.pc = "done", !.jsonStr = extractJson(fn.content),
                      !.result = parseRecipeResponse(fn.content)]
  /\ UNCHANGED <<storeVars, req, rd>>
  /\ UNCHANGED <<socialVars, op>>

NextParse == ParseResponse

SpecParse == InitParse /\ [][NextParse]_vars

(***************************************************************************)
(* Specification of the assemblers on the stores the schema admits         *)
(***************************************************************************)
\* number of recipes of a store
MaxStoredRecipes == 2

RecipeShapes ==
  { [ingredients |-> << <<1, "2 oz">>, <<2, "1 oz">> >>, steps |-> <<"Shake", "Strain">>, equipment |-> <<1>>],
    [ingredients |-> << <<2, "1 oz">> >>, steps |-> <<"Pour">>, equipment |-> <<>>],
    [ingredients |-> <<>>, steps |-> <<"Stir", "Serve", "Sip">>, equipment |-> <<2, 1>>] }

\* recipes.mood_id is nullable
MoodIdChoices == {SqlNull, 1, 2}

StoredRecipe(k, moodId) ==
  [id |-> k, name |-> "Stored", description |-> "", moodId |-> moodId, userId |-> "u1",
   createdAt |-> k, tx |-> 0]
StoredIngredients(k, shape) ==
  [j \in 1..Len(shape.ingredients) |->
    [recipeId |-> k, ingredientId |-> shape.ingredients[j][1], amount |-> shape.ingredients[j][2], tx |-> 0]]
StoredSteps(k, shape) ==
  [j \in 1..Len(shape.steps) |->
    [recipeId |-> k, stepNumber |-> j, instruction |-> shape.steps[j], tx |-> 0]]
StoredEquipment(k, shape) ==
  [j \in 1..Len(shape.equipment) |-> [recipeId |-> k, equipmentId |-> shape.equipment[j], tx |-> 0]]

\* the order in which the transactions of n recipes wrote their relation rows
HeapOrders(n) == {[k \in 1..n |-> k], [k \in 1..n |-> n + 1 - k]}

\* the recipe lists a select can hand to the assembler: distinct rows in any order
RecipeLists(rows) ==
  LET n == Len(rows)
      picks == UNION {[1..k -> 1..n] : k \in 0..n}
  IN { [j \in DOMAIN p |-> RecipeRow(rows[p[j]])] :
         p \in {q \in picks : \A a, b \in DOMAIN q : a # b => q[a] # q[b]} }

InitAssemble ==
  /\ \E n \in 0..MaxStoredRecipes :
       \E mood \in [1..n -> MoodIdChoices], shape \in [1..n -> RecipeShapes], order \in HeapOrders(n) :
         LET Ings(k) == StoredIngredients(k, shape[k])
             Steps(k) == StoredSteps(k, shape[k])
             Equip(k) == StoredEquipment(k, shape[k])
         IN /\ recipes = [k \in 1..n |-> StoredRecipe(k, mood[k])]
            /\ recipeIngredients = FlatMap(Ings, order)
            /\ recipeSteps = FlatMap(Steps, order)
            /\ recipeEquipment = FlatMap(Equip, order)
            /\ nextRecipeId = n + 1
  /\ userPreferences = <<>>
  /\ txStatus = [tx \in 0..MaxRequests |-> IF tx = 0 THEN "committed" ELSE "none"]
  /\ req = [i \in Requests |-> IdleRequest]
  /\ rd = IdleReader
  /\ NoSocial
  /\ fn \in {[pc |-> "input", recipeList |-> l, views |-> <<>>, reads |-> 0] : l \in RecipeLists(recipes)}

\* GET /api/recipes hands its page to getCompleteRecipes unless the page is empty
ListHandler(recipeList) ==
  IF Len(recipeList) = 0 THEN [views |-> <<>>, reads |-> 0] ELSE getCompleteRecipes(recipeList)

CallBatch ==
  /\ fn.pc = "input"
  /\ LET res == ListHandler(fn.recipeList) IN
     fn' = [fn EXCEPT !.pc = "batch", !.views = res.views, !.reads = res.reads]
  /\ UNCHANGED <<storeVars, req, rd>>
  /\ UNCHANGED <<socialVars, op>>

CallBatchOfUsers ==
  /\ fn.pc = "input"
  /\ LET res == getCompleteRecipesOfUsers(fn.recipeList) IN
     fn' = [fn EXCEPT !.pc = "batchOfUsers", !.views = res.views, !.reads = res.reads]
  /\ UNCHANGED <<storeVars, req, rd>>
  /\ UNCHANGED <<socialVars, op>>

\* getCompleteRecipe of the first recipe of the list
CallSingle ==
  /\ fn.pc = "input"
  /\ Len(fn.recipeList) >= 1
  /\ fn' = [fn EXCEPT !.pc = "single", !.views = getCompleteRecipe(fn.recipeList[1].id)]
  /\ UNCHANGED <<storeVars, req, rd>>
  /\ UNCHANGED <<socialVars, op>>

\* a foreign key  references(() => recipes.id)  without onDelete is ON DELETE no action:
\* the delete of a recipe row is refused while a row of the table references it
ForeignKeyRefuses(table, recipeId) == \E k \in 1..Len(table) : table[k].recipeId = recipeId

WithoutId(table, id) == LET Other(row) == row.id # id IN SelectSeq(table, Other)

\* db.delete(recipes).where(eq(recipes.id, id)) of the first recipe of the list
DeleteRecipe ==
  /\ fn.pc = "input"
  /\ Len(fn.recipeList) >= 1
  /\ LET id == fn.recipeList[1].id IN
     IF \/ ForeignKeyRefuses(recipeIngredients, id)
        \/ ForeignKeyRefuses(recipeSteps, id)
        \/ ForeignKeyRefuses(recipeEquipment, id)
     THEN /\ fn' = [fn EXCEPT !.pc = "deleteRefused"]
          /\ UNCHANGED recipes
     ELSE /\ fn' = [fn EXCEPT !.pc = "deleted"]
          /\ recipes' = WithoutId(recipes, id)
  /\ UNCHANGED <<recipeIngredients, recipeSteps, recipeEquipment, userPreferences, txStatus,
                 nextRecipeId, req, rd>>
  /\ UNCHANGED <<socialVars, op>>

NextAssemble == CallBatch \/ CallBatchOfUsers \/ CallSingle \/ DeleteRecipe

SpecAssemble == InitAssemble /\ [][NextAssemble]_vars


(***************************************************************************)
(* Specification of one generation request on drawn bodies and preferences *)
(***************************************************************************)
\* user_preferences tables: no row, the saved lists of u1, a row of u1 whose equipment
\* list is empty, a row of u2 only
PreferenceStores ==
  { <<>>,
    SavedPreferences,
    << [userId |-> "u1", equipmentIds |-> <<>>, ingredientIds |-> <<1>>] >>,
    << [userId |-> "u2", equipmentIds |-> <<2>>, ingredientIds |-> <<1, 2>>] >> }

\* equipment_ids, ingredient_ids and mood_id of the bodies
BodyEquipmentIds == {<<>>, <<1, 2>>, <<2>>, <<9>>}
BodyIngredientIds == {<<>>, <<1, 2>>, <<1>>, <<9>>}
BodyMoodIds == {0, 1, 9}

NoOutcome == [kind |-> "none", content |-> <<>>, message |-> ""]

InitRequest ==
  /\ recipes = <<>>
  /\ recipeIngredients = <<>>
  /\ recipeSteps = <<>>
  /\ recipeEquipment = <<>>
  /\ userPreferences \in PreferenceStores
  /\ txStatus = [tx \in 0..MaxRequests |-> IF tx = 0 THEN "committed" ELSE "none"]
  /\ nextRecipeId = 1
  /\ req = [i \in Requests |-> IdleRequest]
  /\ rd = IdleReader
  /\ NoSocial
  /\ fn \in {[pc |-> "body", user |-> u, equipment_ids |-> e, ingredient_ids |-> g, mood_id |-> m,
              outcome |-> NoOutcome] :
               u \in Users, e \in BodyEquipmentIds, g \in BodyIngredientIds, m \in BodyMoodIds}

\* the handler is entered with the drawn body
StartOfBody ==
  /\ fn.pc = "body"
  /\ req[1].pc = "idle"
  /\ req' = [req EXCEPT ![1] = GenerateStart(req[1], fn.user, fn.equipment_ids, fn.ingredient_ids, fn.mood_id)]
  /\ fn' = [fn EXCEPT !.pc = "started"]
  /\ UNCHANGED <<storeVars, rd>>
  /\ UNCHANGED <<socialVars, op>>

\* await generateRecipe(...), the outcome of the backend kept beside the request
GenerateOfBody ==
  /\ fn.pc = "started"
  /\ req[1].pc = "generating"
  /\ \E outcome \in BackendOutcomes :
       /\ req' = [req EXCEPT ![1] = GenerateRecipe(req[1], outcome)]
       /\ fn' = [fn EXCEPT !.pc = "generated", !.outcome = outcome]
  /\ UNCHANGED <<storeVars, rd>>
  /\ UNCHANGED <<socialVars, op>>

NextRequest ==
  \/ StartOfBody
  \/ GenerateOfBody
  \/ InsertRecipe(1)
  \/ InsertIngredients(1)
  \/ InsertSteps(1)
  \/ InsertEquipment(1)
  \/ Commit(1)
  \/ Fetch(1)

SpecRequest == InitRequest /\ [][NextRequest]_vars

(***************************************************************************)
(* Specification of the rating routes on a store of two recipes            *)
(***************************************************************************)
\* two persisted recipes of u1, the first with two ingredients, the second with one
TwoRecipes ==
  /\ recipes = <<StoredRecipe(1, 1), StoredRecipe(2, SqlNull)>>
  /\ recipeIngredients = << [recipeId |-> 1, ingredientId |-> 1, amount |-> "2 oz", tx |-> 0],
                            [recipeId |-> 1, ingredientId |-> 2, amount |-> "1 oz", tx |-> 0],
                            [recipeId |-> 2, ingredientId |-> 2, amount |-> "1 oz", tx |-> 0] >>
  /\ recipeSteps = << [recipeId |-> 1, stepNumber |-> 1, instruction |-> "Shake", tx |-> 0],
                      [recipeId |-> 2, stepNumber |-> 1, instruction |-> "Pour", tx |-> 0] >>
  /\ recipeEquipment = << [recipeId |-> 1, equipmentId |-> 1, tx |-> 0] >>
  /\ userPreferences = <<>>
  /\ txStatus = [tx \in 0..MaxRequests |-> IF tx = 0 THEN "committed" ELSE "none"]
  /\ nextRecipeId = 3

InitRatings ==
  /\ TwoRecipes
  /\ req = [i \in Requests |-> IdleRequest]
  /\ rd = IdleReader
  /\ NoSocial
  /\ fn = Unused

NextRatings ==
  \E i \in Calls :
    \/ StartSubmitRating(i)
    \/ SelectUser(i)
    \/ InsertUser(i)
    \/ SelectRecipe(i)
    \/ SubmitRating(i)
    \/ StartDeleteRating(i)
    \/ SelectRating(i)
    \/ DeleteRating(i)

SpecRatings == InitRatings /\ [][NextRatings]_vars

(***************************************************************************)
(* Specification of the aggregate route beside a writer of ratings         *)
(***************************************************************************)
\* call 1 reads the aggregate while call 2 submits and deletes ratings
NextAggregate ==
  \/ StartAggregate(1)
  \/ SelectStats(1)
  \/ SelectDistribution(1)
  \/ StartSubmitRating(2)
  \/ SelectUser(2)
  \/ InsertUser(2)
  \/ SelectRecipe(2)
  \/ SubmitRating(2)
  \/ StartDeleteRating(2)
  \/ SelectRating(2)
  \/ DeleteRating(2)

SpecAggregate == InitRatings /\ [][NextAggregate]_vars

(***************************************************************************)
(* Specification of the favorite routes on a store of two recipes          *)
(***************************************************************************)
NextFavorites ==
  \E i \in Calls :
    \/ StartAddFavorite(i)
    \/ SelectUser(i)
    \/ InsertUser(i)
    \/ SelectRecipe(i)
    \/ AddFavorite(i)
    \/ StartRemoveFavorite(i)
    \/ RemoveFavorite(i)
    \/ StartListFavorites(i)
    \/ ReadFavorites(i)
    \/ ReadFavoriteRecipes(i)
    \/ AssembleFavorites(i)

SpecFavorites == InitRatings /\ [][NextFavorites]_vars

(***************************************************************************)
(* Specification of buildRecipePrompt on drawn parameters                  *)
(***************************************************************************)
\* longest list of names of the parameters
MaxNames == 2

\* the non-empty lists of at most MaxNames names of a catalog table, in any order
NameLists(table) ==
  LET names == {table[k].name : k \in 1..Len(table)}
  IN UNION {[1..n -> names] : n \in 1..MaxNames}

\* the moods of the catalog and one whose texts hold the separator of the lists
PromptMoods ==
  Range(moods) \cup {[id |-> 3, name |-> "Relaxed", description |-> "Calm, soothing",
                      exampleDrinks |-> "Gin and Tonic, Mojito"]}

InitPrompt ==
  /\ EmptyStore
  /\ req = [i \in Requests |-> IdleRequest]
  /\ rd = IdleReader
  /\ NoSocial
  /\ fn \in {[pc |-> "params", equipmentNames |-> e, ingredientNames |-> g, moodName |-> mood.name,
              moodDescription |-> mood.description, moodExamples |-> mood.exampleDrinks,
              prompt |-> <<>>] :
               e \in NameLists(equipment), g \in NameLists(ingredients), mood \in PromptMoods}

BuildPrompt ==
  /\ fn.pc = "params"
  /\ fn' = [fn EXCEPT !.pc = "built", !.prompt = buildRecipePrompt(fn)]
  /\ UNCHANGED <<storeVars, req, rd, socialVars, op>>

NextPrompt == BuildPrompt

SpecPrompt == InitPrompt /\ [][NextPrompt]_vars

(***************************************************************************)
(* Specification of one generation request whose steps are all taken       *)
(***************************************************************************)
\* await openai.chat.completions.create(...) on a backend that never answers: the call
\* is given no timeout and no abort signal, and the handler sets no timer beside it,
\* so the promise stays pending
AwaitUnanswered ==
  /\ fn.pc = "started"
  /\ req[1].pc = "generating"
  /\ fn' = [fn EXCEPT !.pc = "unanswered"]
  /\ UNCHANGED <<storeVars, req, rd, socialVars, op>>

NextLive ==
  \/ StartOfBody
  \/ GenerateOfBody
  \/ AwaitUnanswered
  \/ InsertRecipe(1)
  \/ InsertIngredients(1)
  \/ InsertSteps(1)
  \/ InsertEquipment(1)
  \/ Commit(1)
  \/ Fetch(1)

\* the runtime and the store take every step that is ready
SpecLive == InitRequest /\ [][NextLive]_vars /\ WF_vars(NextLive)

(***************************************************************************)
(* Properties                                                              *)
(***************************************************************************)
IsCommitted(row) == txStatus[row.tx] = "committed"
CommittedRowsOf(table, recipeId) ==
  LET Of(row) == row.recipeId = recipeId /\ IsCommitted(row) IN SelectSeq(table, Of)
\* a request whose transaction has committed and whose handler still holds its locals
Persisted(i) == req[i].pc \in {"fetch", "done"} /\ req[i].recipeId # SqlNull /\ txStatus[i] = "committed"
SameIgnoringCase(a, b) == toLowerCase(a) = toLowerCase(b)
\* the k-th smallest element of a set of numbers
Nth(S, k) == CHOOSE x \in S : Cardinality({y \in S : y < x}) = k - 1

\* C1: a generation request that ended in failure has left no visible recipe row,
\* ingredient-junction row, step row or equipment-junction row of its own.
C1_AllOrNothing ==
  \A i \in Requests :
    (req[i].pc = "done" /\ req[i].status # 200) =>
      /\ \A k \in 1..Len(recipes) : ~(recipes[k].tx = i /\ IsCommitted(recipes[k]))
      /\ \A k \in 1..Len(recipeIngredients) : ~(recipeIngredients[k].tx = i /\ IsCommitted(recipeIngredients[k]))
      /\ \A k \in 1..Len(recipeSteps) : ~(recipeSteps[k].tx = i /\ IsCommitted(recipeSteps[k]))
      /\ \A k \in 1..Len(recipeEquipment) : ~(recipeEquipment[k].tx = i /\ IsCommitted(recipeEquipment[k]))

\* a request failed after the recipe insert of a transaction had succeeded
C1_Witness ==
  /\ \E i \in Requests : req[i].pc = "done" /\ req[i].status = 500 /\ req[i].txAttempts = 1
  /\ nextRecipeId - 1 > Len(recipes)

\* C2: every view a reader returns belongs to a committed recipe and holds all the
\* committed ingredient, step and equipment rows of that recipe, no fewer and no more.
C2_NoPartialView ==
  (rd.pc = "done" /\ rd.status = 200) =>
    \A k \in 1..Len(rd.views) :
      LET v == rd.views[k] IN
      /\ \E j \in 1..Len(recipes) : recipes[j].id = v.id /\ IsCommitted(recipes[j])
      /\ Len(v.ingredients) = Len(CommittedRowsOf(recipeIngredients, v.id))
      /\ Len(v.steps) = Len(CommittedRowsOf(recipeSteps, v.id))
      /\ Len(v.equipment) = Len(CommittedRowsOf(recipeEquipment, v.id))

\* a reader has answered with a view while a transaction with staged rows is in progress
C2_Witness ==
  /\ rd.pc = "done" /\ rd.status = 200 /\ Len(rd.views) >= 1
  /\ \E i \in Requests : txStatus[i] = "active" /\ RowsOf(recipeSteps, i) # <<>>

\* C3: the junction rows of a persisted recipe are, in order, one row per generated name
\* that equals an offered name ignoring case, with that record's ID (and the generated
\* amount); names without a match leave no row and the recipe is persisted all the same.
C3_Reconciled ==
  \A i \in Requests :
    Persisted(i) =>
      LET gen == req[i].generatedRecipe
          ingRows == CommittedRowsOf(recipeIngredients, req[i].recipeId)
          eqRows == CommittedRowsOf(recipeEquipment, req[i].recipeId)
          ingHits == {k \in 1..Len(gen.ingredients) :
                        \E d \in Range(req[i].ingredientData) :
                          SameIgnoringCase(d.name, GetProp(gen.ingredients[k], "name").v)}
          eqHits == {k \in 1..Len(gen.equipmentUsed) :
                       \E d \in Range(req[i].equipmentData) :
                         SameIgnoringCase(d.name, gen.equipmentUsed[k].v)}
      IN /\ Len(ingRows) = Cardinality(ingHits)
         /\ \A j \in 1..Len(ingRows) :
              LET ri == gen.ingredients[Nth(ingHits, j)] IN
              /\ ingRows[j].amount = GetProp(ri, "amount").v
              /\ \E d \in Range(req[i].ingredientData) :
                   d.id = ingRows[j].ingredientId /\ SameIgnoringCase(d.name, GetProp(ri, "name").v)
         /\ Len(eqRows) = Cardinality(eqHits)
         /\ \A j \in 1..Len(eqRows) :
              \E d \in Range(req[i].equipmentData) :
                d.id = eqRows[j].equipmentId
                /\ SameIgnoringCase(d.name, gen.equipmentUsed[Nth(eqHits, j)].v)

\* a recipe was persisted with a name matched in another case and with a name dropped
C3_Witness ==
  \E i \in Requests :
    /\ Persisted(i) /\ req[i].status = 200
    /\ \E k \in 1..Len(req[i].generatedRecipe.ingredients) :
         LET name == GetProp(req[i].generatedRecipe.ingredients[k], "name").v IN
         \E d \in Range(req[i].ingredientData) : d.name # name /\ SameIgnoringCase(d.name, name)
    /\ Len(CommittedRowsOf(recipeIngredients, req[i].recipeId)) \in
         1..(Len(req[i].generatedRecipe.ingredients) - 1)
    /\ Len(CommittedRowsOf(recipeEquipment, req[i].recipeId)) >= 1

\* C4: every junction row written by a generation request references an ID of the
\* request's ID list (the list in effect for the request) that is a catalog record.
C4_OnlySuppliedItems ==
  /\ \A k \in 1..Len(recipeIngredients) :
       LET row == recipeIngredients[k] IN
       /\ row.ingredientId \in Range(req[row.tx].ingredient_ids)
       /\ \E d \in Range(ingredients) : d.id = row.ingredientId
  /\ \A k \in 1..Len(recipeEquipment) :
       LET row == recipeEquipment[k] IN
       /\ row.equipmentId \in Range(req[row.tx].equipment_ids)
       /\ \E d \in Range(equipment) : d.id = row.equipmentId

\* a recipe was persisted although the backend named a catalog item that was not supplied
C4_Witness ==
  \E i \in Requests :
    /\ Persisted(i) /\ req[i].status = 200
    /\ \E k \in 1..Len(req[i].generatedRecipe.ingredients) :
         \E d \in Range(ingredients) :
           /\ SameIgnoringCase(d.name, GetProp(req[i].generatedRecipe.ingredients[k], "name").v)
           /\ d.id \notin Range(req[i].ingredient_ids)
    /\ CommittedRowsOf(recipeIngredients, req[i].recipeId) # <<>>

\* C5: a recipe persisted from N generated steps has exactly N step rows, numbered
\* 1..N without gap or duplicate, and the row numbered j holds the j-th instruction.
C5_StepsNumbered ==
  \A i \in Requests :
    Persisted(i) =>
      LET steps == req[i].generatedRecipe.steps
          rows == CommittedRowsOf(recipeSteps, req[i].recipeId)
      IN /\ Len(rows) = Len(steps)
         /\ {rows[j].stepNumber : j \in 1..Len(rows)} = 1..Len(steps)
         /\ \A j \in 1..Len(rows) :
              rows[j].stepNumber \in 1..Len(steps) /\ rows[j].instruction = steps[rows[j].stepNumber].v

\* a recipe with three generated steps was persisted
C5_Witness ==
  \E i \in Requests :
    /\ Persisted(i) /\ req[i].status = 200
    /\ Len(req[i].generatedRecipe.steps) = 3
    /\ Len(CommittedRowsOf(recipeSteps, req[i].recipeId)) = 3

\* C6: the batch assembler answers a list of K recipe rows with K views, the k-th view
\* built from the k-th row; the empty list gives the empty list.
C6_OneViewPerRow ==
  fn.pc \in {"batch", "batchOfUsers"} =>
    /\ Len(fn.views) = Len(fn.recipeList)
    /\ \A k \in 1..Len(fn.recipeList) :
         LET v == fn.views[k]
             r == fn.recipeList[k]
         IN /\ v.id = r.id /\ v.name = r.name /\ v.description = r.description
            /\ v.moodId = r.moodId /\ v.userId = r.userId /\ v.createdAt = r.createdAt

\* a list of two rows that is not in the order of the IDs was assembled
C6_Witness ==
  /\ fn.pc = "batch" /\ Len(fn.views) = 2
  /\ fn.recipeList[1].id > fn.recipeList[2].id

\* C7: in every view of the batch assembler the ingredients, steps and equipment are
\* exactly the rows of the view's recipe, the steps in ascending step number, and the
\* mood is the mood record of the recipe's moodId, or null when there is none.
C7_ViewHoldsItsOwnRows ==
  fn.pc \in {"batch", "batchOfUsers"} =>
    \A k \in 1..Len(fn.views) :
      LET v == fn.views[k]
          ingRows == CommittedRowsOf(recipeIngredients, v.id)
          stepRows == CommittedRowsOf(recipeSteps, v.id)
          eqRows == CommittedRowsOf(recipeEquipment, v.id)
      IN /\ Len(v.ingredients) = Len(ingRows)
         /\ \A j \in 1..Len(ingRows) :
              /\ v.ingredients[j].id = ingRows[j].ingredientId
              /\ v.ingredients[j].amount = ingRows[j].amount
              /\ \E d \in Range(ingredients) :
                   d.id = ingRows[j].ingredientId /\ d.name = v.ingredients[j].name
                   /\ d.icon = v.ingredients[j].icon
         /\ Len(v.steps) = Len(stepRows)
         /\ \A j \in 1..Len(v.steps) :
              \E n \in 1..Len(stepRows) :
                /\ stepRows[n].instruction = v.steps[j]
                /\ Cardinality({m \in 1..Len(stepRows) : stepRows[m].stepNumber < stepRows[n].stepNumber}) = j - 1
         /\ Len(v.equipment) = Len(eqRows)
         /\ \A j \in 1..Len(eqRows) :
              /\ v.equipment[j].id = eqRows[j].equipmentId
              /\ \E d \in Range(equipment) :
                   d.id = eqRows[j].equipmentId /\ d.name = v.equipment[j].name
                   /\ d.icon = v.equipment[j].icon
         /\ IF v.moodId # SqlNull /\ \E m \in Range(moods) : m.id = v.moodId
            THEN v.mood \in Range(moods) /\ v.mood.id = v.moodId
            ELSE v.mood = NullMood

\* two recipes with rows of their own were assembled, one of them without a mood
C7_Witness ==
  /\ fn.pc = "batch" /\ Len(fn.views) = 2
  /\ fn.views[1].mood = NullMood /\ fn.views[2].mood # NullMood
  /\ Len(fn.views[1].steps) >= 2 /\ Len(fn.views[2].steps) >= 2
  /\ Len(fn.views[1].ingredients) >= 1 /\ Len(fn.views[2].equipment) >= 1

\* C8: one call of the batch assembler issues at most 4 reads, whatever the length
\* of its list.
C8_AtMostFourReads ==
  fn.pc \in {"batch", "batchOfUsers"} => fn.reads <= 4

\* a list of MaxStoredRecipes rows was assembled with exactly 4 reads
C8_Witness ==
  fn.pc = "batch" /\ Len(fn.recipeList) = MaxStoredRecipes /\ Len(fn.recipeList) >= 2 /\ fn.reads = 4

\* C9: getCompleteRecipe(id) returns the view that getCompleteRecipes returns for the
\* one-element list of that recipe's row on the same store.
C9_SingleEqualsBatch ==
  fn.pc = "single" => fn.views = getCompleteRecipes(<<fn.recipeList[1]>>).views

\* the single path assembled a recipe with a mood, steps and ingredients next to another recipe
C9_Witness ==
  /\ fn.pc = "single" /\ Len(fn.views) = 1 /\ Len(recipes) >= 2
  /\ fn.views[1].mood # NullMood
  /\ Len(fn.views[1].steps) >= 2 /\ Len(fn.views[1].ingredients) >= 1

\* C10: parseRecipeResponse returns a recipe or fails with one of its four causes
\* (malformed JSON, name, ingredients, steps) and in no other way.
C10_FailsOnlyByItsCauses ==
  fn.pc = "done" => (fn.result.ok \/ fn.result.cause \in ParseCauses)

\* the value the extracted text of the call decodes to
Decoded == JSONparse(fn.jsonStr)
DecodesToObject == fn.pc = "done" /\ Decoded.ok /\ Decoded.val.t = "obj"
ValidName(val) == GetProp(val, "name").t = "str" /\ GetProp(val, "name").v # ""
ValidList(val, key) == GetProp(val, key).t = "arr" /\ GetProp(val, key).v # <<>>

\* C11: on content that decodes to an object parseRecipeResponse reports the first
\* failing check in the order name, ingredients, steps, and returns a recipe only when
\* all three pass; every returned recipe has a name, an ingredient and a step.
C11_FirstFailingCheck ==
  /\ DecodesToObject =>
       LET val == Decoded.val
           res == fn.result
       IN /\ ~ValidName(val) => (~res.ok /\ res.cause = "name")
          /\ (ValidName(val) /\ ~ValidList(val, "ingredients")) => (~res.ok /\ res.cause = "ingredients")
          /\ (ValidName(val) /\ ValidList(val, "ingredients") /\ ~ValidList(val, "steps"))
               => (~res.ok /\ res.cause = "steps")
          /\ res.ok <=> (ValidName(val) /\ ValidList(val, "ingredients") /\ ValidList(val, "steps"))
  /\ (fn.pc = "done" /\ fn.result.ok) =>
       /\ fn.result.recipe.name # ""
       /\ Len(fn.result.recipe.ingredients) >= 1
       /\ Len(fn.result.recipe.steps) >= 1

\* an object with a valid name and neither ingredients nor steps was refused for its ingredients
C11_Witness ==
  /\ DecodesToObject /\ ValidName(Decoded.val)
  /\ GetProp(Decoded.val, "ingredients").t = "str" /\ GetProp(Decoded.val, "steps") = Absent
  /\ ~fn.result.ok /\ fn.result.cause = "ingredients"

\* C12: with valid name, ingredients and steps the call returns, whatever description
\* and equipmentUsed hold: a string description and an array equipmentUsed unchanged,
\* anything else as the empty string and the empty list.
C12_OptionalFieldsNormalized ==
  (DecodesToObject /\ ValidName(Decoded.val) /\ ValidList(Decoded.val, "ingredients")
     /\ ValidList(Decoded.val, "steps")) =>
    LET d == GetProp(Decoded.val, "description")
        e == GetProp(Decoded.val, "equipmentUsed")
    IN /\ fn.result.ok
       /\ fn.result.recipe.description = (IF d.t = "str" THEN d.v ELSE "")
       /\ fn.result.recipe.equipmentUsed = (IF e.t = "arr" THEN e.v ELSE <<>>)

\* a recipe was returned from an object with a numeric description and a string equipmentUsed
C12_Witness ==
  /\ DecodesToObject /\ fn.result.ok
  /\ GetProp(Decoded.val, "description").t = "num" /\ GetProp(Decoded.val, "equipmentUsed").t = "str"
  /\ fn.result.recipe.description = "" /\ fn.result.recipe.equipmentUsed = <<>>

\* C13: for every JSON object written without wrapper, in a json fence, in a bare fence
\* or between prose, the text extractJson returns parses to an object equal to it.
C13_ExtractRoundTrips ==
  (fn.pc = "done" /\ fn.source.t = "obj" /\ fn.wrapper \in {"raw", "json fence", "bare fence", "prose"}) =>
    (Decoded.ok /\ Decoded.val = fn.source)

\* C14: extractJson returns the trimmed block between the first two fence markers when
\* there are two, else the span from the first open brace to the last close brace when a
\* close brace follows an open brace, else the input with surrounding whitespace trimmed.
C14_ExtractionPriority ==
  fn.pc = "done" =>
    LET raw == fn.content
        fences == {i \in 1..Len(raw) : raw[i] = FENCE}
        opens == {i \in 1..Len(raw) : raw[i] = "{"}
        closes == {i \in 1..Len(raw) : raw[i] = "}"}
    IN IF Cardinality(fences) >= 2
       THEN LET a == CHOOSE i \in fences : \A j \in fences : i <= j
                b == CHOOSE i \in fences \ {a} : \A j \in fences \ {a} : i <= j
                from == IF a + 1 < b /\ raw[a + 1] = "json" THEN a + 2 ELSE a + 1
            IN fn.jsonStr = Trim(IF from > b - 1 THEN <<>> ELSE SubSeq(raw, from, b - 1))
       ELSE IF \E i \in opens : \E j \in closes : i < j
       THEN LET a == CHOOSE i \in opens : \A j \in opens : i <= j
                b == CHOOSE i \in closes : \A j \in closes : i >= j
            IN fn.jsonStr = SubSeq(raw, a, b)
       ELSE fn.jsonStr = Trim(raw)

\* a text with brace spans before and after a fenced block gave the fenced block
C14_Witness ==
  /\ fn.pc = "done" /\ fn.jsonStr = <<"5">>
  /\ fn.content[1] = "{" /\ fn.content[Len(fn.content)] = "}"
  /\ Cardinality({i \in 1..Len(fn.content) : fn.content[i] = FENCE}) = 2

\* the outcome of the backend of the drawn request is no recipe
GenerationFailed ==
  /\ fn.pc = "generated"
  /\ \/ fn.outcome.kind \in {"rejected", "empty"}
     \/ fn.outcome.kind = "content" /\ ~parseRecipeResponse(fn.outcome.content).ok
NothingWritten ==
  /\ recipes = <<>> /\ recipeIngredients = <<>> /\ recipeSteps = <<>> /\ recipeEquipment = <<>>
  /\ nextRecipeId = 1

\* C15: when the backend call fails, gives empty content or gives content that is no
\* recipe, the request is answered 500 with the underlying message (the backend's
\* message, the parse cause) and no row of the four tables has been written.
C15_GenerationFailureSurfaced ==
  GenerationFailed =>
    /\ req[1].pc = "done" /\ req[1].status = 500
    /\ req[1].txAttempts = 0
    /\ NothingWritten
    /\ req[1].error =
         (CASE fn.outcome.kind = "rejected" -> "AI service error: " \o fn.outcome.message
            [] fn.outcome.kind = "empty" -> "AI service returned empty response"
            [] OTHER -> ParseErrorMessage(parseRecipeResponse(fn.outcome.content).cause))

\* a content without steps was answered 500 with the message that names the steps
C15_Witness ==
  /\ GenerationFailed /\ fn.outcome.kind = "content"
  /\ parseRecipeResponse(fn.outcome.content).cause = "steps"
  /\ req[1].status = 500 /\ req[1].error = ParseErrorMessage("steps")

\* C16: within one request the backend is called at most once and the transaction is
\* attempted at most once, whatever their outcome.
C16_NoRetry ==
  \A i \in Requests : req[i].aiCalls <= 1 /\ req[i].txAttempts <= 1

\* a request ended 500 after its one call and its one transaction, which failed
C16_Witness ==
  /\ fn.pc = "generated"
  /\ req[1].pc = "done" /\ req[1].status = 500 /\ req[1].aiCalls = 1 /\ req[1].txAttempts = 1

\* the ID lists in effect for the drawn request, from its body and the preferences table
SavedRows == LET Of(row) == row.userId = fn.user IN SelectSeq(userPreferences, Of)
EffectiveIds(bodyIds, column) ==
  IF bodyIds # <<>> THEN bodyIds ELSE IF SavedRows # <<>> THEN SavedRows[1][column] ELSE <<>>
Resolves(table, ids) == \E d \in Range(table) : d.id \in Range(ids)
ListsResolve ==
  /\ Resolves(equipment, EffectiveIds(fn.equipment_ids, "equipmentIds"))
  /\ Resolves(ingredients, EffectiveIds(fn.ingredient_ids, "ingredientIds"))
MoodExists == \E m \in Range(moods) : m.id = fn.mood_id
RejectedUnrun(status) ==
  /\ req[1].pc = "done" /\ req[1].status = status
  /\ req[1].aiCalls = 0 /\ req[1].txAttempts = 0
  /\ NothingWritten

C18_RelationsDestroyedWithRecipe ==
  fn.pc \in {"deleted", "deleteRefused"} =>
    LET id == fn.recipeList[1].id IN
    /\ fn.pc = "deleted"
    /\ \A k \in 1..Len(recipes) : recipes[k].id # id
    /\ \A k \in 1..Len(recipeIngredients) : recipeIngredients[k].recipeId # id
    /\ \A k \in 1..Len(recipeSteps) : recipeSteps[k].recipeId # id
    /\ \A k \in 1..Len(recipeEquipment) : recipeEquipment[k].recipeId # id

\* C19: when the transaction of a generation request aborts, the answer is generic: the
\* same whichever insert failed, and without the store's error message.
C19_GenericPersistenceFailure ==
  (req[1].pc = "done" /\ req[1].status = 500 /\ req[1].txAttempts = 1) =>
    req[1].error = "Failed to generate recipe"

\* C20: a non-empty ID list of the body is used as supplied, an empty one is replaced
\* by the saved list of the user when a preferences row exists; each list on its own.
C20_FallbackPerList ==
  (fn.pc \in {"started", "generated"} /\ (req[1].pc # "done" \/ req[1].status = 200)) =>
    /\ fn.equipment_ids # <<>> => req[1].equipment_ids = fn.equipment_ids
    /\ fn.ingredient_ids # <<>> => req[1].ingredient_ids = fn.ingredient_ids
    /\ (fn.equipment_ids = <<>> /\ SavedRows # <<>>) => req[1].equipment_ids = SavedRows[1].equipmentIds
    /\ (fn.ingredient_ids = <<>> /\ SavedRows # <<>>) => req[1].ingredient_ids = SavedRows[1].ingredientIds

\* a body with equipment and without ingredients ran with its own equipment list and the
\* saved ingredient list, the saved equipment list being another one
C20_Witness ==
  /\ fn.pc = "started" /\ req[1].pc = "generating"
  /\ fn.equipment_ids # <<>> /\ fn.ingredient_ids = <<>> /\ SavedRows # <<>>
  /\ SavedRows[1].equipmentIds # fn.equipment_ids
  /\ req[1].equipment_ids = fn.equipment_ids
  /\ req[1].ingredient_ids = SavedRows[1].ingredientIds

\* the call whose handler made the step
Stepped(i) == op'[i] # op[i]
RecipeExists(recipeId) == \E k \in 1..Len(recipes) : recipes[k].id = recipeId /\ IsCommitted(recipes[k])
RatingRows(uid, recipeId) ==
  {k \in 1..Len(recipeRatings) : recipeRatings[k].userId = uid /\ recipeRatings[k].recipeId = recipeId}

C22_DeleteOnlyOwnRating ==
  [][\A i \in Calls :
       (Stepped(i) /\ op[i].kind = "unrate" /\ op[i].pc # "done") =>
         /\ \A k \in 1..Len(recipeRatings) :
              \/ recipeRatings[k] \in Range(recipeRatings')
              \/ /\ recipeRatings[k].id = op[i].ratingId
                 /\ recipeRatings[k].recipeId = op[i].recipeId
                 /\ recipeRatings[k].userId = op[i].user
         /\ Range(recipeRatings') \subseteq Range(recipeRatings)
         /\ (op[i].pc = "find" /\ ~ \E k \in 1..Len(recipeRatings) :
                                       /\ recipeRatings[k].id = op[i].ratingId
                                       /\ recipeRatings[k].recipeId = op[i].recipeId
                                       /\ recipeRatings[k].userId = op[i].user) =>
              op'[i].pc = "done" /\ op'[i].status = 404
         /\ op'[i].status = 404 => recipeRatings' = recipeRatings]_vars

\* one request has deleted the only rating while another was answered 404
C22_Witness ==
  /\ op[1].pc = "done" /\ op[1].kind = "unrate" /\ op[1].status = 200
  /\ op[2].pc = "done" /\ op[2].kind = "unrate" /\ op[2].status = 404
  /\ nextRatingId = 2
  /\ recipeRatings = <<>>

\* total_ratings: stats.totalRatings || 0
TotalRatings(o) == o.stats.totalRatings
DistributionSum(o) ==
  o.distribution[1] + o.distribution[2] + o.distribution[3] + o.distribution[4] + o.distribution[5]

\* C29: in every answer of GET /:id/ratings/aggregate, total_ratings is the sum of the
\* five counts of rating_distribution, whatever is submitted or deleted meanwhile.
C29_TotalIsSumOfDistribution ==
  \A i \in Calls :
    (op[i].pc = "done" /\ op[i].kind = "aggregate" /\ op[i].status = 200) =>
      TotalRatings(op[i]) = DistributionSum(op[i])

FavoriteRows(table, uid, recipeId) ==
  {k \in 1..Len(table) : table[k].userId = uid /\ table[k].recipeId = recipeId}
FavoritesOfOthers(table, uid) == LET Other(row) == row.userId # uid IN SelectSeq(table, Other)

\* C23: there is never more than one favorite row per (user, recipe) pair; every POST
\* /me/favorites for an existing recipe is answered 200 and leaves exactly one row of
\* the pair; a POST for a recipe that does not exist writes no favorite and is answered
\* 404 at its recipe lookup; a DELETE /me/favorites/:recipeId that is answered leaves no
\* row of the pair, and no step of it touches the rows of other users.
C23_FavoriteIdempotent ==
  /\ [](\A uid \in AuthUsers, recipeId \in FavoriteRecipeIds :
          Cardinality(FavoriteRows(userFavorites, uid, recipeId)) <= 1)
  /\ [][\A i \in Calls :
          /\ (Stepped(i) /\ op[i].kind = "favorite" /\ op[i].pc # "done") =>
               /\ (RecipeExists(op[i].recipeId) /\ op'[i].pc = "done") =>
                    /\ op'[i].status = 200
                    /\ Cardinality(FavoriteRows(userFavorites', op[i].user, op[i].recipeId)) = 1
               /\ ~ RecipeExists(op[i].recipeId) =>
                    /\ userFavorites' = userFavorites
                    /\ op'[i].status # 200
                    /\ op[i].pc = "recipe" => op'[i].pc = "done" /\ op'[i].status = 404
          /\ (Stepped(i) /\ op[i].kind = "unfavorite" /\ op[i].pc # "done") =>
               /\ FavoritesOfOthers(userFavorites', op[i].user) = FavoritesOfOthers(userFavorites, op[i].user)
               /\ (op'[i].pc = "done" /\ op'[i].status = 200) =>
                    FavoriteRows(userFavorites', op[i].user, op[i].recipeId) = {}]_vars

\* C28: the insert of getOrCreateUser is never refused, and it leaves exactly one users
\* row of the caller, also when another request of the same caller runs getOrCreateUser
\* at the same time.
C28_ConcurrentFirstCalls ==
  [][\A i \in Calls :
       (Stepped(i) /\ op[i].pc = "createUser") =>
         /\ op'[i].pc # "done"
         /\ Cardinality({row \in users' : row.id = op[i].user}) = 1]_vars

\* the number of favorites of a caller that are newer than a reading of now()
NewerFavorites(uid, createdAt) ==
  Cardinality({k \in 1..Len(userFavorites) :
                 userFavorites[k].userId = uid /\ userFavorites[k].createdAt > createdAt})
FavoritesCount(uid) == Cardinality({k \in 1..Len(userFavorites) : userFavorites[k].userId = uid})

\* C30: the page GET /me/favorites reads holds favorites of the caller alone, the newest
\* first, starting after the offset newest and not longer than the limit; and the
\* recipes of the answer are the recipes of that page, in the order of the page.
C30_FavoritesNewestFirst ==
  [][\A i \in Calls :
       (Stepped(i) /\ op[i].kind = "favorites" /\ op[i].pc # "done") =>
         /\ op[i].pc = "select" =>
              LET page == op'[i].favorites
                  n == FavoritesCount(op[i].user)
                  rest == IF n > op[i].offset THEN n - op[i].offset ELSE 0
              IN IF rest = 0 THEN op'[i].pc = "done" /\ op'[i].views = <<>>
                 ELSE /\ Len(page) = MinOf({rest, op[i].limit})
                      /\ \A k \in 1..Len(page) :
                           /\ HasFavorite(userFavorites, op[i].user, page[k].recipeId)
                           /\ NewerFavorites(op[i].user, page[k].createdAt) = op[i].offset + k - 1
         /\ op[i].pc = "assemble" =>
              /\ Len(op'[i].views) = Len(op[i].favorites)
              /\ \A k \in 1..Len(op[i].favorites) : op'[i].views[k].id = op[i].favorites[k].recipeId]_vars

\* text occurs in prompt as a run of consecutive pieces
Contains(prompt, text) ==
  \E k \in 0..(Len(prompt) - Len(text)) : \A j \in 1..Len(text) : prompt[k + j] = text[j]
\* the names of a list with ", " between neighbours
CommaJoined(names) ==
  [k \in 1..(2 * Len(names) - 1) |-> IF k % 2 = 1 THEN names[(k + 1) \div 2] ELSE ", "]

\* C24: the prompt built from non-empty name lists and a mood holds, between line
\* breaks, the equipment names joined by ", " in input order and the ingredient names
\* joined by ", " in input order; it holds the mood name right after the label "MOOD: ",
\* the mood description and the example drinks as single unchanged pieces, and the
\* output format with the key equipmentUsed in quotes.
C24_PromptHoldsItsInputs ==
  fn.pc = "built" =>
    /\ Contains(fn.prompt, <<NL>> \o CommaJoined(fn.equipmentNames) \o <<NL>>)
    /\ Contains(fn.prompt, <<NL>> \o CommaJoined(fn.ingredientNames) \o <<NL>>)
    /\ Contains(fn.prompt, <<"MOOD: ", fn.moodName, NL>>)
    /\ Contains(fn.prompt, <<fn.moodDescription>>)
    /\ Contains(fn.prompt, <<fn.moodExamples>>)
    /\ Contains(fn.prompt, <<"Return your response in the following JSON format:">>)
    /\ Contains(fn.prompt, <<QUOTE, "equipmentUsed", QUOTE>>)

\* a prompt of two different equipment names and two ingredient names
C24_Witness ==
  /\ fn.pc = "built"
  /\ fn.equipmentNames = <<"Jigger", "Shaker">>
  /\ fn.ingredientNames = <<"Vodka", "Lime Juice">>
  /\ fn.moodName = "Relaxed"

\* an ingredients entry {name: string, amount: string}
TypedIngredient(ri) ==
  IF ri.t # "obj" THEN FALSE
  ELSE GetProp(ri, "name").t = "str" /\ GetProp(ri, "amount").t = "str"
AllStrings(list) == \A k \in 1..Len(list) : list[k].t = "str"

\* C25: every recipe parseRecipeResponse returns is fully typed: each entry of
\* ingredients is an object with a string name and a string amount, each entry of steps
\* is a string and each entry of equipmentUsed is a string.
C25_ReturnedRecipeTyped ==
  (fn.pc = "done" /\ fn.result.ok) =>
    /\ \A k \in 1..Len(fn.result.recipe.ingredients) : TypedIngredient(fn.result.recipe.ingredients[k])
    /\ AllStrings(fn.result.recipe.steps)
    /\ AllStrings(fn.result.recipe.equipmentUsed)

\* C26: no committed recipe has step rows and no ingredient row, or ingredient rows and
\* no step row.
C26_StepsAndIngredientsTogether ==
  \A k \in 1..Len(recipes) :
    IsCommitted(recipes[k]) =>
      (CommittedRowsOf(recipeSteps, recipes[k].id) = <<>>
         <=> CommittedRowsOf(recipeIngredients, recipes[k].id) = <<>>)

\* C27: a generation request that has called the backend ends, with its recipe
\* persisted or with a failure, whatever the backend does.
C27_EveryRequestEnds == (req[1].pc = "generating") ~> (req[1].pc = "done")

====
